---- MODULE Spec2Model ----
(***************************************************************************)
(* Model of the CineCalidad Stremio addon: the meta resolution pipeline    *)
(* (MetaHandler), the stream handler's use of the persisted store, the     *)
(* SQLite-backed cache and movie tables (DatabaseService) and the periodic *)
(* cleanup timers.                                                         *)
(*                                                                         *)
(* JavaScript values are tagged records: [t |-> "undefined"], [t |->       *)
(* "null"], [t |-> "str", v |-> <<chars>>], [t |-> "num", v |-> n],        *)
(* [t |-> "arr", v |-> <<...>>], [t |-> "obj", v |-> record].  A string is *)
(* the sequence of its characters.                                         *)
(***************************************************************************)
EXTENDS Integers, Sequences, FiniteSets, TLC

VARIABLES
  now,      \* wall clock (Date.now() / SQLite 'now'), in whole seconds UTC
  advances, \* number of clock advances made so far (bounds the run)
  cache,    \* rows of the SQLite table `cache`: key -> [data, expires_at]
  movies,   \* rows of the SQLite table `movies`, in rowid order
  torrents, \* rows of the SQLite table `torrents`: info_hash -> data
  last      \* the last request handled: kind, args, the collaborators that
            \* threw, outcome, response and the collaborator calls in order

vars == <<now, advances, cache, movies, torrents, last>>

(***************************** bounds **************************************)
\* number of times the clock may be advanced in one behaviour
MaxAdvances == 3
\* number of collaborators that may throw during one request
MaxFaults == 1

(************************* JavaScript values *******************************)
JUndef == [t |-> "undefined"]
JNull == [t |-> "null"]
JStr(s) == [t |-> "str", v |-> s]
JNum(n) == [t |-> "num", v |-> n]
JArr(a) == [t |-> "arr", v |-> a]
JObj(r) == [t |-> "obj", v |-> r]
JBool(b) == [t |-> "bool", v |-> b]
\* a number that is not an integer: n / d
JFrac(n, d) == [t |-> "frac", n |-> n, d |-> d]

\* JavaScript truthiness (ToBoolean)
Truthy(x) ==
  CASE x.t = "undefined" -> FALSE
    [] x.t = "null" -> FALSE
    [] x.t = "str" -> x.v # <<>>
    [] x.t = "num" -> x.v # 0
    [] x.t = "nan" -> FALSE
    [] x.t = "bool" -> x.v
    [] OTHER -> TRUE

\* property access o.k and optional chaining o?.k
Get(o, k) ==
  IF o.t = "obj" /\ k \in DOMAIN o.v THEN o.v[k] ELSE JUndef

\* object spread {...o, ...fields}
Spread(o, fields) ==
  JObj([k \in (IF o.t = "obj" THEN DOMAIN o.v ELSE {}) \cup DOMAIN fields |->
          IF k \in DOMAIN fields THEN fields[k] ELSE o.v[k]])

\* a || b
Or(a, b) == IF Truthy(a) THEN a ELSE b

(****************************** strings ************************************)
Digit == {"0", "1", "2", "3", "4", "5", "6", "7", "8", "9"}
Lower == {"a", "b", "c", "d", "e", "f", "g", "h", "i", "j", "k", "l", "m",
          "n", "o", "p", "q", "r", "s", "t", "u", "v", "w", "x", "y", "z"}
Upper == {"A", "B", "C", "D", "E", "F", "G", "H", "I", "J", "K", "L", "M",
          "N", "O", "P", "Q", "R", "S", "T", "U", "V", "W", "X", "Y", "Z"}
\* the characters String.prototype.trim() strips and /\s/ matches
WhiteSpace == {" ", "\t", "\n"}
\* the characters of the printable ASCII range \x20-\x7E used by the model
Printable == Digit \cup Lower \cup Upper \cup
             {" ", "-", "_", ":", "(", ")", "<", ">", "'", "\"", "&", "/", "."}

StartsWith(s, p) == Len(s) >= Len(p) /\ SubSeq(s, 1, Len(p)) = p

\* String.prototype.substring(0, n)
Substring0(s, n) == SubSeq(s, 1, IF n < Len(s) THEN n ELSE Len(s))

\* String.prototype.substring(n)
SubstringFrom(s, n) == SubSeq(s, n + 1, Len(s))

\* s.replace(/[set]/g, "")
RemoveChars(s, set) == SelectSeq(s, LAMBDA c : c \notin set)

RECURSIVE TrimLeft(_)
TrimLeft(s) ==
  IF s # <<>> /\ Head(s) \in WhiteSpace THEN TrimLeft(Tail(s)) ELSE s

RECURSIVE TrimRight(_)
TrimRight(s) ==
  IF s # <<>> /\ s[Len(s)] \in WhiteSpace
    THEN TrimRight(SubSeq(s, 1, Len(s) - 1))
    ELSE s

Trim(s) == TrimRight(TrimLeft(s))

\* String.prototype.includes
Includes(s, p) ==
  \E i \in 0..(Len(s) - Len(p)) : SubSeq(s, i + 1, i + Len(p)) = p

\* String.prototype.toLowerCase on the model's alphabet
LowerOf(c) ==
  CASE c = "A" -> "a" [] c = "B" -> "b" [] c = "C" -> "c" [] c = "D" -> "d"
    [] c = "E" -> "e" [] c = "F" -> "f" [] c = "G" -> "g" [] c = "H" -> "h"
    [] c = "I" -> "i" [] c = "J" -> "j" [] c = "K" -> "k" [] c = "L" -> "l"
    [] c = "M" -> "m" [] c = "N" -> "n" [] c = "O" -> "o" [] c = "P" -> "p"
    [] c = "Q" -> "q" [] c = "R" -> "r" [] c = "S" -> "s" [] c = "T" -> "t"
    [] c = "U" -> "u" [] c = "V" -> "v" [] c = "W" -> "w" [] c = "X" -> "x"
    [] c = "Y" -> "y" [] c = "Z" -> "z" [] OTHER -> c

ToLowerCase(s) == [i \in 1..Len(s) |-> LowerOf(s[i])]

\* String.prototype.toUpperCase on the model's alphabet
UpperOf(c) ==
  IF c \in Lower THEN CHOOSE u \in Upper : LowerOf(u) = c ELSE c

ToUpperCase(s) == [i \in 1..Len(s) |-> UpperOf(s[i])]

\* a run of n copies of the character c
Repeat(c, n) == [i \in 1..n |-> c]

(**************************** validators ***********************************)
\* maximum length sanitizeId keeps
SanitizeMaxLen == 100
\* minimum number of digits of an IMDB id
ImdbMinDigits == 7

AllIn(s, set) == \A i \in 1..Len(s) : s[i] \in set

\* variant: an external id of any number of digits is accepted
validateMovieId_AnyDigits(id) ==
  IF id.t # "str" \/ id.v = <<>> THEN FALSE
  ELSE IF StartsWith(id.v, <<"t", "t">>)
    THEN AllIn(SubstringFrom(id.v, 2), Digit)
  ELSE IF StartsWith(id.v, <<"c", "c", "_">>)
    THEN LET movieId == SubstringFrom(id.v, 3)
         IN Len(movieId) > 0 /\ AllIn(movieId, Lower \cup Digit \cup {"-"})
  ELSE FALSE

\* validateMovieId(id): id is a JavaScript value
validateMovieId(id) ==
  IF id.t # "str" \/ id.v = <<>> THEN FALSE
  ELSE IF StartsWith(id.v, <<"t", "t">>)
    THEN LET rest == SubstringFrom(id.v, 2)
         IN Len(rest) >= ImdbMinDigits /\ AllIn(rest, Digit)
  ELSE IF StartsWith(id.v, <<"c", "c", "_">>)
    THEN LET movieId == SubstringFrom(id.v, 3)
         IN Len(movieId) > 0 /\ AllIn(movieId, Lower \cup Digit \cup {"-"})
  ELSE FALSE

\* sanitizeId(id): [ok |-> TRUE, v |-> chars] or [ok |-> FALSE] (ValidationError)
sanitizeId(id) ==
  IF id.t # "str" \/ id.v = <<>> THEN [ok |-> FALSE, v |-> <<>>]
  ELSE LET sanitized ==
             Substring0(
               SelectSeq(RemoveChars(Trim(id.v), {"<", ">", "'", "\"", "&"}),
                         LAMBDA c : c \in Printable),
               SanitizeMaxLen)
       IN IF sanitized = <<>> THEN [ok |-> FALSE, v |-> <<>>]
          ELSE [ok |-> TRUE, v |-> sanitized]

(****************** time and the SQLite text timestamps ********************)
SecondsPerMinute == 60
SecondsPerDay == 24 * 60 * SecondsPerMinute
\* the code point of the separator between date and time
CodeT == 84
CodeSpace == 32

\* Date.prototype.toISOString(): "YYYY-MM-DDTHH:MM:SS.000Z", as the
\* sequence <<date, separator, time of day>> that decides a comparison
ToISOString(t) == <<t \div SecondsPerDay, CodeT, t % SecondsPerDay>>

\* SQLite CURRENT_TIMESTAMP / datetime(): "YYYY-MM-DD HH:MM:SS"
SqlDatetime(t) == <<t \div SecondsPerDay, CodeSpace, t % SecondsPerDay>>

\* SQLite's comparison of two TEXT values (memcmp order)
RECURSIVE TextLess(_, _)
TextLess(a, b) ==
  IF a = <<>> THEN b # <<>>
  ELSE IF b = <<>> THEN FALSE
  ELSE IF Head(a) # Head(b) THEN Head(a) < Head(b)
  ELSE TextLess(Tail(a), Tail(b))

(************************ DatabaseService **********************************)
\* JSON.parse(JSON.stringify(x)): properties holding undefined are dropped,
\* array elements holding undefined become null
RECURSIVE JsonRoundTrip(_)
JsonRoundTrip(x) ==
  CASE x.t = "obj" ->
         JObj([k \in {f \in DOMAIN x.v : x.v[f].t # "undefined"} |->
                 JsonRoundTrip(x.v[k])])
    [] x.t = "arr" ->
         JArr([i \in 1..Len(x.v) |->
                 IF x.v[i].t = "undefined" THEN JNull
                 ELSE JsonRoundTrip(x.v[i])])
    [] OTHER -> x

\* the empty table
NoRows == [k \in {} |-> 0]

\* DatabaseService.setCache(key, data, ttlMinutes) at time t
setCache(c, key, data, ttlMinutes, t) ==
  [k \in DOMAIN c \cup {key} |->
     IF k = key
       THEN [data |-> JsonRoundTrip(data),
             expires_at |-> ToISOString(t + ttlMinutes * SecondsPerMinute)]
       ELSE c[k]]

\* variant: the filter with its comparison turned round
CacheRowLive_Reversed(row, t) == TextLess(row.expires_at, SqlDatetime(t))

\* the row filter "expires_at > CURRENT_TIMESTAMP" of getCache
CacheRowLive(row, t) == TextLess(SqlDatetime(t), row.expires_at)

\* DatabaseService.getCache(key) at time t
getCache(c, key, t) ==
  IF key \in DOMAIN c /\ CacheRowLive(c[key], t) THEN c[key].data ELSE JNull

\* DatabaseService.clearExpiredCache(): expires_at <= CURRENT_TIMESTAMP
clearExpiredCache(c, t) ==
  [k \in {x \in DOMAIN c : TextLess(SqlDatetime(t), c[x].expires_at)} |-> c[k]]

\* the table `movies` is a sequence of rows in rowid order
MovieRowIndex(m, id) ==
  IF \E i \in 1..Len(m) : m[i].id = id
    THEN CHOOSE i \in 1..Len(m) : m[i].id = id
    ELSE 0

\* DatabaseService.saveMovie(movieId, movieData): INSERT OR REPLACE deletes
\* the row with the same id and appends the new one
saveMovie(m, id, data, t) ==
  Append(SelectSeq(m, LAMBDA r : r.id # id),
         [id |-> id, data |-> JsonRoundTrip(data), updated_at |-> SqlDatetime(t)])

\* DatabaseService.getMovie(movieId)
getMovie(m, id) ==
  IF MovieRowIndex(m, id) = 0 THEN JNull ELSE m[MovieRowIndex(m, id)].data

RowMatchesOriginalId(row, originalId) ==
  \/ /\ Truthy(Get(row.data, "release"))
     /\ Get(Get(row.data, "release"), "id") = JStr(originalId)
  \/ /\ Truthy(Get(row.data, "movieDetails"))
     /\ Get(Get(row.data, "movieDetails"), "id") = JStr(originalId)

\* DatabaseService.findMovieByOriginalId(originalId): first row in scan order
findMovieByOriginalId(m, originalId) ==
  LET hits == {i \in 1..Len(m) : RowMatchesOriginalId(m[i], originalId)}
  IN IF hits = {} THEN JNull
     ELSE LET i == CHOOSE j \in hits : \A k \in hits : j <= k
          IN JObj([stremioId |-> JStr(m[i].id), data |-> m[i].data])

\* retention of the table `movies`, in days
MovieRetentionDays == 7

\* DatabaseService.cleanup(): clearExpiredCache() and
\* DELETE FROM movies WHERE updated_at < datetime('now', '-7 days')
cleanupMovies(m, t) ==
  SelectSeq(m, LAMBDA r :
    ~TextLess(r.updated_at, SqlDatetime(t - MovieRetentionDays * SecondsPerDay)))

(************************ MetadataBuilder **********************************)
JNaN == [t |-> "nan"]

DigitValue(c) ==
  CASE c = "0" -> 0 [] c = "1" -> 1 [] c = "2" -> 2 [] c = "3" -> 3
    [] c = "4" -> 4 [] c = "5" -> 5 [] c = "6" -> 6 [] c = "7" -> 7
    [] c = "8" -> 8 [] c = "9" -> 9

RECURSIVE ParseDigits(_, _)
ParseDigits(s, acc) ==
  IF s = <<>> \/ Head(s) \notin Digit THEN acc
  ELSE ParseDigits(Tail(s), acc * 10 + DigitValue(Head(s)))

\* parseInt(s, 10) of a string without sign
ParseInt(s) ==
  LET body == TrimLeft(s)
  IN IF body = <<>> \/ Head(body) \notin Digit THEN JNaN
     ELSE JNum(ParseDigits(body, 0))

\* new Date().getFullYear(): the clock starts in 2025
FullYear(t) == 2025 + t \div (365 * SecondsPerDay)

MinYear == 1900
YearSlack == 5

\* variant: the first valid title, with or without parenthesis
_selectBestTitle_FirstValid(titles) ==
  LET validTitles ==
        SelectSeq(titles, LAMBDA x : x.t = "str" /\ x.v # <<>> /\ Trim(x.v) # <<>>)
  IN IF Len(validTitles) = 0
       THEN JStr(<<"U", "n", "k", "n", "o", "w", "n", " ",
                   "T", "i", "t", "l", "e">>)
     ELSE JStr(Trim(validTitles[1].v))

\* MetadataBuilder._selectBestTitle(...titles)
UnknownTitle ==
  <<"U", "n", "k", "n", "o", "w", "n", " ", "T", "i", "t", "l", "e">>

_selectBestTitle(titles) ==
  LET validTitles ==
        SelectSeq(titles, LAMBDA x : x.t = "str" /\ x.v # <<>> /\ Trim(x.v) # <<>>)
      nonParenTitles == SelectSeq(validTitles, LAMBDA x : ~Includes(x.v, <<"(">>))
  IN IF Len(validTitles) = 0 THEN JStr(UnknownTitle)
     ELSE IF Len(nonParenTitles) > 0 THEN JStr(Trim(nonParenTitles[1].v))
     ELSE JStr(Trim(validTitles[1].v))

\* MetadataBuilder._parseYear(year), year being undefined, null, a string
\* or a number
_parseYear(year, t) ==
  IF ~Truthy(year) THEN JUndef
  ELSE LET parsed == IF year.t = "str" THEN ParseInt(year.v) ELSE year
       IN IF parsed.t = "frac"
            THEN IF parsed.n < MinYear * parsed.d
                    \/ parsed.n > (FullYear(t) + YearSlack) * parsed.d
                   THEN JUndef
                 ELSE parsed
          ELSE IF parsed.t # "num" THEN JUndef
          ELSE IF parsed.v < MinYear \/ parsed.v > FullYear(t) + YearSlack
            THEN JUndef
          ELSE parsed

MaxGenres == 10

\* MetadataBuilder._normalizeGenres(genres)
_normalizeGenres(genres) ==
  IF ~Truthy(genres) THEN JUndef
  ELSE LET normalized == IF genres.t = "arr" THEN genres.v ELSE <<genres>>
           strings == SelectSeq(normalized, LAMBDA g : g.t = "str" /\ g.v # <<>>)
           trimmed == [i \in 1..Len(strings) |-> JStr(Trim(strings[i].v))]
           nonEmpty == SelectSeq(trimmed, LAMBDA g : Len(g.v) > 0)
           validGenres == SubSeq(nonEmpty, 1,
                                 IF Len(nonEmpty) < MaxGenres THEN Len(nonEmpty)
                                 ELSE MaxGenres)
       IN IF Len(validGenres) > 0 THEN JArr(validGenres) ELSE JUndef

\* MetadataBuilder._buildReleaseInfo(release)
_buildReleaseInfo(release) ==
  IF ~Truthy(Get(release, "quality")) THEN JUndef ELSE Get(release, "quality")

\* variant: only undefined values are removed
_cleanMetadata_OnlyUndefined(meta) ==
  [k \in {f \in DOMAIN meta : meta[f].t # "undefined"} |-> meta[k]]

\* MetadataBuilder._cleanMetadata(meta)
_cleanMetadata(meta) ==
  [k \in {f \in DOMAIN meta :
            /\ meta[f].t \notin {"undefined", "null"}
            /\ (meta[f].t = "arr" => Len(meta[f].v) > 0)} |-> meta[k]]

MovieType == <<"m", "o", "v", "i", "e">>

\* the characters of s before the first one in set
RECURSIVE TakeUntil(_, _)
TakeUntil(s, set) ==
  IF s = <<>> \/ Head(s) \in set THEN <<>>
  ELSE <<Head(s)>> \o TakeUntil(Tail(s), set)

\* s without its leading characters in set
RECURSIVE DropWhile(_, _)
DropWhile(s, set) ==
  IF s # <<>> /\ Head(s) \in set THEN DropWhile(Tail(s), set) ELSE s

\* characters a host may not hold
ForbiddenHostChars ==
  {" ", "#", "/", "<", ">", "?", "@", "[", "\\", "]", "^", "|", "%"}

\* validateUrl(url): `new URL(url)` succeeds and its protocol is http: or
\* https:. The URL parser drops surrounding spaces, reads the scheme up to
\* the first ":" without regard to case, skips the slashes after the scheme
\* of a special URL and fails on an empty host or a forbidden host character.
validateUrl(url) ==
  IF ~Truthy(url) \/ url.t # "str" THEN FALSE
  ELSE LET input == Trim(url.v)
           scheme == ToLowerCase(TakeUntil(input, {":"}))
           rest == DropWhile(SubstringFrom(input, Len(scheme) + 1),
                             {"/", "\\"})
           host == TakeUntil(rest, {"/", "\\", "?", "#"})
       IN /\ Len(scheme) < Len(input)
          /\ scheme \in {<<"h", "t", "t", "p">>, <<"h", "t", "t", "p", "s">>}
          /\ host # <<>>
          /\ \A i \in 1..Len(host) : host[i] \notin ForbiddenHostChars

\* MetadataBuilder._validateAndCleanUrl(url)
_validateAndCleanUrl(url) ==
  IF ~Truthy(url) \/ url.t # "str" THEN JUndef
  ELSE IF ~validateUrl(JStr(Trim(url.v))) THEN JUndef
  ELSE JStr(Trim(url.v))

\* MetadataBuilder.buildFromIMDB(id, metadata).  The fields background,
\* description, cast, director, writer and imdbRating are built from the
\* metadata alone and are not part of this model.
buildFromIMDB(id, metadata, t) ==
  JObj(_cleanMetadata(
    [id |-> JStr(id),
     type |-> JStr(MovieType),
     name |-> _selectBestTitle(<<Get(metadata, "originalTitle"),
                                 Get(metadata, "title")>>),
     poster |-> _validateAndCleanUrl(Get(metadata, "poster")),
     year |-> _parseYear(Get(metadata, "year"), t),
     genres |-> _normalizeGenres(Get(metadata, "genres")),
     imdbId |-> JStr(id),
     releaseInfo |-> JUndef]))

\* the record buildFromCatalogData and buildFromScrapedData both assemble
MergedMeta(id, release, movieDetails, externalMeta, t) ==
  JObj(_cleanMetadata(
    [id |-> JStr(id),
     type |-> JStr(MovieType),
     name |-> _selectBestTitle(<<Get(externalMeta, "originalTitle"),
                                 Get(externalMeta, "title"),
                                 Get(release, "originalTitle"),
                                 Get(release, "title")>>),
     poster |-> _validateAndCleanUrl(Or(Get(externalMeta, "poster"),
                                        Get(release, "poster"))),
     year |-> _parseYear(Or(Get(externalMeta, "year"), Get(release, "year")), t),
     genres |-> _normalizeGenres(
                  Or(Get(externalMeta, "genres"),
                     IF Truthy(Get(release, "category"))
                       THEN JArr(<<Get(release, "category")>>)
                       ELSE JUndef)),
     imdbId |-> Get(movieDetails, "imdbId"),
     releaseInfo |-> _buildReleaseInfo(release)]))

\* MetadataBuilder.buildFromCatalogData(catalogData, id): [ok, v]
buildFromCatalogData(catalogData, id, t) ==
  IF ~Truthy(Get(catalogData, "release")) THEN [ok |-> FALSE, v |-> JUndef]
  ELSE [ok |-> TRUE,
        v |-> MergedMeta(id, Get(catalogData, "release"),
                         Get(catalogData, "movieDetails"),
                         Get(catalogData, "externalMeta"), t)]

\* MetadataBuilder.buildFromScrapedData({release, movieDetails, externalMeta, id})
buildFromScrapedData(release, movieDetails, externalMeta, id, t) ==
  MergedMeta(id, release, movieDetails, externalMeta, t)

(*************************** Release Matcher *******************************)
Min(a, b) == IF a < b THEN a ELSE b

\* the prefix length the fuzzy comparison is capped at
FuzzyPrefixLen == 15

\* normalizeId = (id) => id.toLowerCase().replace(/[-\s_]/g, "")
normalizeId(id) == RemoveChars(ToLowerCase(id), {"-", "_"} \cup WhiteSpace)

\* variant: only the comparison of the two prefixes
FuzzyMatch_PrefixOnly(r, normalizedTarget) ==
  /\ Truthy(Get(r, "id"))
  /\ LET normalizedRelease == normalizeId(Get(r, "id").v)
         minLength == Min(FuzzyPrefixLen,
                          Min(Len(normalizedTarget), Len(normalizedRelease)))
     IN Substring0(normalizedTarget, minLength)
          = Substring0(normalizedRelease, minLength)

\* the predicate of the fuzzy releases.find(...)
FuzzyMatch(r, normalizedTarget) ==
  /\ Truthy(Get(r, "id"))
  /\ LET normalizedRelease == normalizeId(Get(r, "id").v)
         minLength == Min(FuzzyPrefixLen,
                          Min(Len(normalizedTarget), Len(normalizedRelease)))
         targetSubstring == Substring0(normalizedTarget, minLength)
         releaseSubstring == Substring0(normalizedRelease, minLength)
     IN \/ targetSubstring = releaseSubstring
        \/ Includes(normalizedRelease, Substring0(normalizedTarget, minLength))

\* variant: the fuzzy search comes before the exact one
_findMatchingRelease_FuzzyFirst(releases, targetId) ==
  LET exact == SelectSeq(releases, LAMBDA r : Get(r, "id") = JStr(targetId))
      fuzzy == SelectSeq(releases, LAMBDA r : FuzzyMatch(r, normalizeId(targetId)))
  IN IF Len(fuzzy) > 0 THEN fuzzy[1]
     ELSE IF Len(exact) > 0 THEN exact[1]
     ELSE JUndef

\* MetaHandler._findMatchingRelease(releases, targetId): a release or undefined
_findMatchingRelease(releases, targetId) ==
  LET exact == SelectSeq(releases, LAMBDA r : Get(r, "id") = JStr(targetId))
      fuzzy == SelectSeq(releases, LAMBDA r : FuzzyMatch(r, normalizeId(targetId)))
  IN IF Len(exact) > 0 THEN exact[1]
     ELSE IF Len(releases) > 0 /\ Len(fuzzy) > 0 THEN fuzzy[1]
     ELSE JUndef

(***************************** MetaHandler *********************************)
\* default ttlMinutes of CacheService.set
CacheTtlMinutes == 30

\* env.fail names the collaborators that throw; a handler threads
\* st = [cache, movies, torrents, calls] and a step yields
\* [ok, err, v, st], ok = FALSE meaning that err was thrown
Call(st, name) == [st EXCEPT !.calls = Append(@, name)]
Returned(st, v) == [ok |-> TRUE, err |-> "", v |-> v, st |-> st]
Thrown(st, code) == [ok |-> FALSE, err |-> code, v |-> JUndef, st |-> st]

\* `const r = await step; rest`: the outcome v of a step, named r in the rest
Let(v, rest(_)) == rest(v)

\* CacheService.get(key)
CacheService_get(key, env, st, t) ==
  LET st1 == Call(st, "getCache")
  IN IF "getCache" \in env.fail THEN Returned(st1, JNull)
     ELSE LET result == getCache(st1.cache, key, t)
          IN Returned(st1, IF Truthy(result) THEN result ELSE JNull)

\* CacheService.set(key, value) with the default ttlMinutes
CacheService_set(key, value, env, st, t) ==
  LET st1 == Call(st, "setCache")
  IN IF "setCache" \in env.fail THEN st1
     ELSE [st1 EXCEPT !.cache = setCache(@, key, value, CacheTtlMinutes, t)]

MetaKey(id) == <<"m", "e", "t", "a", ":">> \o id

\* MetaHandler._getSavedMovie(id)
_getSavedMovie(id, env, st) ==
  LET st1 == Call(st, "getMovie")
      savedMovie == getMovie(st1.movies, id)
  IN IF "getMovie" \in env.fail THEN Returned(st1, JNull)
     ELSE IF Truthy(Get(savedMovie, "meta"))
       THEN Returned(st1, JObj([meta |-> Get(savedMovie, "meta")]))
     ELSE Returned(st1, JNull)

\* the database.saveMovie call of _saveBuildMetadata and _saveScrapedMovie
SaveWithTimestamp(id, movieData, env, st, t) ==
  LET st1 == Call(st, "saveMovie")
      dataWithTimestamp ==
        Spread(movieData, [lastUpdated |-> JStr(ToISOString(t))])
  IN IF "saveMovie" \in env.fail THEN st1
     ELSE [st1 EXCEPT !.movies = saveMovie(@, id, dataWithTimestamp, t)]

\* variant: the built meta is saved without the catalog data
_saveBuildMetadata_MetaOnly(id, catalogData, meta, env, st, t) ==
  SaveWithTimestamp(id, JObj([meta |-> JObj([meta |-> meta])]), env, st, t)

\* MetaHandler._saveBuildMetadata(id, catalogData, meta)
_saveBuildMetadata(id, catalogData, meta, env, st, t) ==
  SaveWithTimestamp(id, Spread(catalogData, [meta |-> JObj([meta |-> meta])]),
                    env, st, t)

\* MetaHandler._saveScrapedMovie(id, movieData)
_saveScrapedMovie(id, movieData, env, st, t) ==
  SaveWithTimestamp(id, movieData, env, st, t)

\* MetaHandler._getCatalogMovie(movieId, context)
_getCatalogMovie(movieId, sanitizedId, env, st, t) ==
  LET st1 == Call(st, "findMovieByOriginalId")
      catalogMovie == findMovieByOriginalId(st1.movies, movieId)
      data == Get(catalogMovie, "data")
      st2 == Call(st1, "metadataBuilder")
      built == buildFromCatalogData(data, sanitizedId, t)
  IN IF "findMovieByOriginalId" \in env.fail THEN Returned(st1, JNull)
     ELSE IF ~Truthy(catalogMovie) THEN Returned(st1, JNull)
     ELSE IF Truthy(Get(Get(data, "meta"), "meta"))
       THEN Returned(st1, Get(data, "meta"))
     ELSE IF Truthy(Get(data, "release"))
       THEN IF "metadataBuilder" \in env.fail \/ ~built.ok
              THEN Returned(st2, JNull)
              ELSE Returned(
                     _saveBuildMetadata(sanitizedId, data, built.v, env, st2, t),
                     JObj([meta |-> built.v]))
     ELSE Returned(st1, JNull)

\* MetaHandler._getExternalMetadata(movieDetails)
_getExternalMetadata(movieDetails, env, st) ==
  LET imdbId == Get(movieDetails, "imdbId")
      st1 == Call(st, "getMovieMetadata")
  IN IF imdbId.t \in {"undefined", "null"} THEN Returned(st, JNull)
     ELSE IF imdbId.t # "str" THEN Thrown(st, "TypeError")
     ELSE IF ~StartsWith(imdbId.v, <<"t", "t">>) THEN Returned(st, JNull)
     ELSE IF "getMovieMetadata" \in env.fail THEN Returned(st1, JNull)
     ELSE Returned(st1, env.ext)

\* MetaHandler._scrapeMovie(movieId, fullId): everything thrown inside is
\* rethrown as SCRAPING_ERROR
_scrapeMovie(movieId, fullId, env, st, t) ==
  LET st1 == Call(st, "performQuery")
      release == _findMatchingRelease(env.releases, movieId)
      st2 == Call(st1, "getMovieDetails")
      movieDetails == env.details
      ext == _getExternalMetadata(movieDetails, env, st2)
      st3 == Call(ext.st, "metadataBuilder")
      meta == buildFromScrapedData(release, movieDetails, ext.v, fullId, t)
      st4 == _saveScrapedMovie(fullId,
                               JObj([meta |-> JObj([meta |-> meta]),
                                     movieDetails |-> movieDetails,
                                     release |-> release,
                                     externalMeta |-> ext.v]),
                               env, st3, t)
  IN IF "performQuery" \in env.fail THEN Thrown(st1, "SCRAPING_ERROR")
     ELSE IF ~Truthy(release) THEN Returned(st1, JNull)
     ELSE IF "getMovieDetails" \in env.fail THEN Thrown(st2, "SCRAPING_ERROR")
     ELSE IF ~ext.ok THEN Thrown(ext.st, "SCRAPING_ERROR")
     ELSE IF "metadataBuilder" \in env.fail THEN Thrown(st3, "SCRAPING_ERROR")
     ELSE Returned(st4, JObj([meta |-> meta]))

\* variant: the catalog scan is tried before the persisted record
_handleCineCalidadId_CatalogFirst(id, env, st, t) ==
  Let(_getCatalogMovie(SubstringFrom(id, 3), id, env, st, t),
      LAMBDA catalogMovie :
    IF Truthy(catalogMovie.v) THEN catalogMovie
    ELSE Let(_getSavedMovie(id, env, catalogMovie.st), LAMBDA savedMovie :
      IF Truthy(savedMovie.v) THEN savedMovie
      ELSE Let(_scrapeMovie(SubstringFrom(id, 3), id, env, savedMovie.st, t),
               LAMBDA scrapedMovie :
        IF ~scrapedMovie.ok THEN scrapedMovie
        ELSE IF Truthy(scrapedMovie.v) THEN scrapedMovie
        ELSE Returned(scrapedMovie.st, JNull))))

\* MetaHandler._handleCineCalidadId(id): id starts with "cc_", so
\* id.replace("cc_", "") drops the first three characters
_handleCineCalidadId(id, env, st, t) ==
  Let(_getSavedMovie(id, env, st), LAMBDA savedMovie :
    IF Truthy(savedMovie.v) THEN savedMovie
    ELSE Let(_getCatalogMovie(SubstringFrom(id, 3), id, env, savedMovie.st, t),
             LAMBDA catalogMovie :
      IF Truthy(catalogMovie.v) THEN catalogMovie
      ELSE Let(_scrapeMovie(SubstringFrom(id, 3), id, env, catalogMovie.st, t),
               LAMBDA scrapedMovie :
        IF ~scrapedMovie.ok THEN scrapedMovie
        ELSE IF Truthy(scrapedMovie.v) THEN scrapedMovie
        ELSE Returned(scrapedMovie.st, JNull))))

\* MetaHandler._handleIMDBId(id)
_handleIMDBId(id, env, st, t) ==
  LET st1 == Call(st, "getMovieMetadata")
      st2 == Call(st1, "metadataBuilder")
  IN IF "getMovieMetadata" \in env.fail
       THEN Thrown(st1, "EXTERNAL_SERVICE_ERROR")
     ELSE IF ~Truthy(env.ext) THEN Returned(st1, JNull)
     ELSE IF "metadataBuilder" \in env.fail
       THEN Thrown(st2, "EXTERNAL_SERVICE_ERROR")
     ELSE Returned(st2, buildFromIMDB(id, env.ext, t))

\* MetaHandler._routeMetaRequest(id)
_routeMetaRequest(id, env, st, t) ==
  IF StartsWith(id, <<"t", "t">>) THEN _handleIMDBId(id, env, st, t)
  ELSE IF StartsWith(id, <<"c", "c", "_">>)
    THEN _handleCineCalidadId(id, env, st, t)
  ELSE Thrown(st, "UNSUPPORTED_ID_TYPE")

\* the response {meta: null}
NullMeta == JObj([meta |-> JNull])

\* MetaHandler._handleError(error, context)
_handleError(st) == Returned(st, NullMeta)

\* MetaHandler._validateInput(args): the error code thrown, "" for none
_validateInput(args) ==
  IF ~Truthy(args) \/ args.t # "obj" THEN "INVALID_INPUT"
  ELSE IF ~Truthy(Get(args, "id")) \/ Get(args, "id").t # "str"
    THEN "INVALID_INPUT"
  ELSE IF ~validateMovieId(Get(args, "id")) THEN "INVALID_ID_FORMAT"
  ELSE ""

\* variant: the response is cached whether or not a meta was found
HandleValidated_CachesNull(args, env, st, t) ==
  LET sanitized == sanitizeId(Get(args, "id"))
      sanitizedId == sanitized.v
  IN IF ~sanitized.ok THEN Thrown(st, "INVALID_INPUT")
     ELSE Let(CacheService_get(MetaKey(sanitizedId), env, st, t),
              LAMBDA cachedResult :
       IF Truthy(cachedResult.v) THEN cachedResult
       ELSE Let(_routeMetaRequest(sanitizedId, env, cachedResult.st, t),
                LAMBDA result :
         IF ~result.ok THEN result
         ELSE Let(IF Truthy(result.v)
                    THEN JObj([meta |-> Or(Get(result.v, "meta"), result.v)])
                    ELSE NullMeta,
                  LAMBDA response :
           Returned(CacheService_set(MetaKey(sanitizedId), response, env,
                                     result.st, t),
                    response))))

\* the part of MetaHandler.handle after validation, inside its try block
HandleValidated(args, env, st, t) ==
  LET sanitized == sanitizeId(Get(args, "id"))
      sanitizedId == sanitized.v
  IN IF ~sanitized.ok THEN Thrown(st, "INVALID_INPUT")
     ELSE Let(CacheService_get(MetaKey(sanitizedId), env, st, t),
              LAMBDA cachedResult :
       IF Truthy(cachedResult.v) THEN cachedResult
       ELSE Let(_routeMetaRequest(sanitizedId, env, cachedResult.st, t),
                LAMBDA result :
         IF ~result.ok THEN result
         ELSE IF ~Truthy(result.v) THEN Returned(result.st, NullMeta)
         ELSE Let(JObj([meta |-> Or(Get(result.v, "meta"), result.v)]),
                  LAMBDA response :
           IF ~Truthy(Get(response, "meta")) THEN Returned(result.st, NullMeta)
           ELSE Returned(CacheService_set(MetaKey(sanitizedId), response, env,
                                          result.st, t),
                         response))))

\* variant: the type of the request is not looked at
MetaHandler_handle_AnyType(args, env, st, t) ==
  Let(IF ~Truthy(args) \/ args.t # "obj" THEN _handleError(st)
      ELSE IF ~(Truthy(Get(args, "type")) /\ Truthy(Get(args, "id")))
        THEN Returned(st, NullMeta)
      ELSE IF _validateInput(args) # "" THEN Thrown(st, _validateInput(args))
      ELSE HandleValidated(args, env, st, t),
      LAMBDA attempt :
    IF attempt.ok THEN attempt ELSE _handleError(attempt.st))

\* MetaHandler.handle(args): the try block and its catch
MetaHandler_handle(args, env, st, t) ==
  Let(IF ~Truthy(args) \/ args.t # "obj" THEN _handleError(st)
      ELSE IF ~(Truthy(Get(args, "type")) /\ Truthy(Get(args, "id")))
        THEN Returned(st, NullMeta)
      ELSE IF _validateInput(args) # "" THEN Thrown(st, _validateInput(args))
      ELSE IF Get(args, "type") # JStr(MovieType) THEN Returned(st, NullMeta)
      ELSE HandleValidated(args, env, st, t),
      LAMBDA attempt :
    IF attempt.ok THEN attempt ELSE _handleError(attempt.st))

(************************* TorrentInfoService *******************************)
SupportedVideoExtensions ==
  {<<"m", "p", "4">>, <<"m", "k", "v">>, <<"a", "v", "i">>, <<"m", "o", "v">>,
   <<"w", "m", "v">>, <<"f", "l", "v">>, <<"m", "4", "v">>,
   <<"w", "e", "b", "m">>}

\* name.split(".").pop()
Extension(name) ==
  LET dots == {i \in 1..Len(name) : name[i] = "."}
      lastDot == IF dots = {} THEN 0
                 ELSE CHOOSE i \in dots : \A j \in dots : j <= i
  IN SubSeq(name, lastDot + 1, Len(name))

\* variant: a lookup that finds no persisted torrent
getTorrent_Miss(tt, infoHash) == JNull

\* DatabaseService.getTorrent(infoHash)
getTorrent(tt, infoHash) ==
  IF infoHash \in DOMAIN tt THEN tt[infoHash] ELSE JNull

\* DatabaseService.saveTorrent(infoHash, torrentData)
saveTorrent(tt, infoHash, data) ==
  [k \in DOMAIN tt \cup {infoHash} |->
     IF k = infoHash THEN JsonRoundTrip(data) ELSE tt[k]]

BingeGroupPrefix ==
  <<"c", "i", "n", "e", "c", "a", "l", "i", "d", "a", "d", "-">>

\* _getBingeGroupId(movieData, id), the same in both services
_getBingeGroupId(movieData, id) ==
  LET movieDetails == Get(movieData, "movieDetails")
  IN Or(Or(Get(Get(movieDetails, "externalMeta"), "imdb"),
           Get(movieDetails, "imdbId")),
        JStr(id))

BingeGroup(bingeGroupId) ==
  IF bingeGroupId.t = "str" THEN JStr(BingeGroupPrefix \o bingeGroupId.v)
  ELSE bingeGroupId

\* TorrentInfoService._createSingleFileStream: the fields infoHash, fileIdx,
\* filename and behaviorHints.bingeGroup of the descriptor
_createSingleFileStream(magnetInfo, bingeGroupId) ==
  LET main == Get(magnetInfo, "mainVideoFile")
  IN <<JObj([infoHash |-> Get(magnetInfo, "hash"),
             fileIdx |-> IF Truthy(main) THEN Get(main, "index") ELSE JNum(0),
             filename |-> IF Truthy(main) THEN Get(main, "name")
                          ELSE Get(magnetInfo, "displayName"),
             bingeGroup |-> BingeGroup(bingeGroupId)])>>

\* variant: one descriptor per file of the torrent, video or not
_createMultiFileStreams_AllFiles(magnetInfo, bingeGroupId) ==
  LET files == Get(magnetInfo, "files").v
  IN [i \in 1..Len(files) |->
        JObj([infoHash |-> Get(magnetInfo, "hash"),
              fileIdx |-> Get(files[i], "index"),
              filename |-> Or(Get(files[i], "name"), JUndef),
              bingeGroup |-> BingeGroup(bingeGroupId)])]

\* TorrentInfoService._createMultiFileStreams
_createMultiFileStreams(magnetInfo, bingeGroupId) ==
  LET files == Get(magnetInfo, "files").v
      videoFiles ==
        SelectSeq(files, LAMBDA file :
          Extension(ToLowerCase(Get(file, "name").v))
            \in SupportedVideoExtensions)
  IN IF Len(videoFiles) = 0
       THEN _createSingleFileStream(magnetInfo, bingeGroupId)
       ELSE [i \in 1..Len(videoFiles) |->
               JObj([infoHash |-> Get(magnetInfo, "hash"),
                     fileIdx |-> Get(videoFiles[i], "index"),
                     filename |-> Or(Get(videoFiles[i], "name"), JUndef),
                     bingeGroup |-> BingeGroup(bingeGroupId)])]

\* TorrentInfoService._createStreamsFromTorrent(magnetInfo, movieData, id)
_createStreamsFromTorrent(magnetInfo, movieData, id) ==
  LET files == Get(magnetInfo, "files")
  IN IF files.t = "arr" /\ Len(files.v) > 0
       THEN _createMultiFileStreams(magnetInfo, _getBingeGroupId(movieData, id))
       ELSE _createSingleFileStream(magnetInfo, _getBingeGroupId(movieData, id))

\* TorrentInfoService._fetchTorrentInfo(magnetUri): a TorrentInfo or null
_fetchTorrentInfo(env, st) ==
  LET st1 == Call(st, "getTorrentInfo")
      torrentInfo == env.torrent
  IN IF "getTorrentInfo" \in env.fail THEN Returned(st1, JNull)
     ELSE IF ~Truthy(torrentInfo) THEN Returned(st1, JNull)
     ELSE IF Get(torrentInfo, "trackers").t # "arr" THEN Returned(st1, JNull)
     ELSE Returned(st1,
            JObj([displayName |-> Get(torrentInfo, "name"),
                  hash |-> Get(torrentInfo, "infoHash"),
                  trackers |-> Get(torrentInfo, "trackers"),
                  files |-> Get(torrentInfo, "files"),
                  mainVideoFile |-> Get(torrentInfo, "mainVideoFile")]))

\* TorrentInfoService.processLink(link, movieData, id): [streams, st]
processLink(link, movieData, id, env, st) ==
  LET url == Get(link, "url").v
      st1 == Call(st, "getTorrent")
      saved == getTorrent(st1.torrents, url)
  IN IF "getTorrent" \in env.fail THEN [streams |-> <<>>, st |-> st1]
     ELSE IF Truthy(saved)
       THEN [streams |-> _createStreamsFromTorrent(saved, movieData, id),
             st |-> st1]
     ELSE Let(_fetchTorrentInfo(env, st1), LAMBDA fetched :
       IF ~Truthy(fetched.v) THEN [streams |-> <<>>, st |-> fetched.st]
       ELSE IF "saveTorrent" \in env.fail
         THEN [streams |-> <<>>, st |-> Call(fetched.st, "saveTorrent")]
       ELSE [streams |-> _createStreamsFromTorrent(fetched.v, movieData, id),
             st |-> [Call(fetched.st, "saveTorrent") EXCEPT
                       !.torrents = saveTorrent(@, url, fetched.v)]])

(***************************** StreamHandler ********************************)
\* the response {streams: []}
NoStreams == JObj([streams |-> JArr(<<>>)])

\* StreamHandler._generateCacheKey(id)
StreamKey(id) == <<"s", "t", "r", "e", "a", "m", "_">> \o id

\* StreamHandler._createStremioId(release)
Stream_createStremioId(release) ==
  IF Truthy(Get(release, "id"))
    THEN JStr(<<"c", "c", "_">> \o Get(release, "id").v)
  ELSE IF Truthy(Get(release, "imdbId"))
          /\ StartsWith(Get(release, "imdbId").v, <<"t", "t">>)
    THEN Get(release, "imdbId")
  ELSE JNull

\* StreamHandler._findRelease(id): the release, undefined or null; the ids
\* of the model need no percent-encoding, so encodeURIComponent and
\* decodeURIComponent leave them as they are
_findRelease(id, env) ==
  LET found ==
        IF StartsWith(id, <<"c", "c", "_">>)
          THEN SelectSeq(env.releases,
                         LAMBDA r : Get(r, "id") = JStr(SubstringFrom(id, 3)))
          ELSE SelectSeq(env.releases,
                         LAMBDA r : Stream_createStremioId(r) = JStr(id))
  IN IF Len(found) > 0 THEN found[1] ELSE JUndef

\* StreamHandler._enrichWithExternalMetadata(movieDetails, id): the
\* movieDetails after the call, and the calls made
_enrichWithExternalMetadata(movieDetails, id, env, st) ==
  LET imdbId == Get(movieDetails, "imdbId")
      st1 == Call(st, "getMovieMetadata")
  IN IF ~StartsWith(id, <<"c", "c", "_">>) THEN Returned(st, movieDetails)
     ELSE IF imdbId.t # "str" \/ ~StartsWith(imdbId.v, <<"t", "t">>)
       THEN Returned(st, movieDetails)
     ELSE IF "getMovieMetadata" \in env.fail THEN Returned(st1, movieDetails)
     ELSE IF Truthy(env.ext)
       THEN Returned(st1, Spread(movieDetails, [externalMeta |-> env.ext]))
     ELSE Returned(st1, movieDetails)

\* StreamHandler._fetchMovieData(id): everything thrown inside yields null
_fetchMovieData(id, env, st, t) ==
  LET usesLister == StartsWith(id, <<"c", "c", "_">>)
                      \/ StartsWith(id, <<"t", "t">>)
      st1 == IF usesLister THEN Call(st, "performQuery") ELSE st
      release == IF usesLister THEN _findRelease(id, env) ELSE JNull
      st2 == Call(st1, "getMovieDetails")
  IN IF usesLister /\ "performQuery" \in env.fail THEN Returned(st1, JNull)
     ELSE IF ~Truthy(release) THEN Returned(st1, JNull)
     ELSE IF "getMovieDetails" \in env.fail THEN Returned(st2, JNull)
     ELSE Let(_enrichWithExternalMetadata(env.details, id, env, st2),
              LAMBDA enriched :
       IF env.details.t \in {"null", "undefined"}
         THEN Returned(enriched.st, JNull)
       ELSE IF "saveMovie" \in env.fail
         THEN Returned(Call(enriched.st, "saveMovie"), JNull)
       ELSE Let(JObj([movieDetails |-> enriched.v,
                      release |-> release,
                      externalMeta |-> Get(enriched.v, "externalMeta"),
                      lastUpdated |-> JStr(ToISOString(t))]),
                LAMBDA movieData :
         Returned([Call(enriched.st, "saveMovie") EXCEPT
                     !.movies = saveMovie(@, id, movieData, t)],
                  movieData)))

\* StreamHandler._getMovieData(id): a getMovie that throws is not caught here
_getMovieData(id, env, st, t) ==
  LET st1 == Call(st, "getMovie")
      savedMovie == getMovie(st1.movies, id)
  IN IF "getMovie" \in env.fail THEN Thrown(st1, "DATABASE_ERROR")
     ELSE IF Truthy(savedMovie) /\ Truthy(Get(savedMovie, "movieDetails"))
       THEN Returned(st1, savedMovie)
     ELSE _fetchMovieData(id, env, st1, t)

\* StreamHandler._extractQuality(linkName)
_extractQuality(linkName) ==
  LET name == IF Truthy(linkName) THEN linkName.v ELSE <<>>
      upper == ToUpperCase(name)
  IN IF Includes(upper, <<"4", "K">>)
        \/ Includes(upper, <<"2", "1", "6", "0", "P">>)
       THEN <<"4", "K">>
     ELSE IF Includes(upper, <<"7", "2", "0", "P">>)
       THEN <<"7", "2", "0", "p">>
     ELSE <<"1", "0", "8", "0", "p">>

\* StreamHandler._processDownloadLinks: the fields quality (of the name),
\* externalUrl and behaviorHints.bingeGroup of each descriptor
_processDownloadLinks(nonMagnetLinks, movieData, id) ==
  [i \in 1..Len(nonMagnetLinks) |->
     JObj([quality |-> JStr(_extractQuality(Get(nonMagnetLinks[i], "name"))),
           externalUrl |-> Get(nonMagnetLinks[i], "url"),
           bingeGroup |-> BingeGroup(_getBingeGroupId(movieData, id))])]

\* StreamHandler._processMagnetLinks: processLink for each link in order;
\* every inspection settles, a failed one contributes no stream
RECURSIVE _processMagnetLinks(_, _, _, _, _)
_processMagnetLinks(magnetLinks, movieData, id, env, st) ==
  IF magnetLinks = <<>> THEN [streams |-> <<>>, st |-> st]
  ELSE Let(processLink(Head(magnetLinks), movieData, id, env, st),
           LAMBDA first :
    Let(_processMagnetLinks(Tail(magnetLinks), movieData, id, env, first.st),
        LAMBDA rest :
      [streams |-> first.streams \o rest.streams, st |-> rest.st]))

IsMagnet(link) ==
  Truthy(Get(link, "url")) /\ StartsWith(Get(link, "url").v,
                                         <<"m", "a", "g", "n", "e", "t", ":">>)

\* StreamHandler._processStreams(movieData, id): [streams, st]
_processStreams(movieData, id, env, st) ==
  LET downloadLinks == Get(Get(movieData, "movieDetails"), "downloadLinks")
      links == IF downloadLinks.t = "arr" THEN downloadLinks.v ELSE <<>>
      magnetLinks == SelectSeq(links, IsMagnet)
      nonMagnetLinks ==
        SelectSeq(links, LAMBDA l : Truthy(Get(l, "url")) /\ ~IsMagnet(l))
  IN IF Len(links) = 0 THEN [streams |-> <<>>, st |-> st]
     ELSE Let(_processMagnetLinks(magnetLinks, movieData, id, env, st),
              LAMBDA magnetStreams :
       [streams |-> magnetStreams.streams
                      \o _processDownloadLinks(nonMagnetLinks, movieData, id),
        st |-> magnetStreams.st])

\* StreamHandler._validateRequest(args)
_validateRequest(args) ==
  Truthy(args) /\ Truthy(Get(args, "id")) /\ Truthy(Get(args, "type"))

\* StreamHandler.handle(args) for args whose id, when present, is a string;
\* the catch block logs args.id and rethrows
StreamHandler_handle(args, env, st, t) ==
  LET id == Get(args, "id").v
  IN IF args.t \in {"null", "undefined"} THEN Thrown(st, "TypeError")
     ELSE IF ~_validateRequest(args) THEN Thrown(st, "INVALID_INPUT")
     ELSE IF Get(args, "type") # JStr(MovieType) THEN Returned(st, NoStreams)
     ELSE Let(CacheService_get(StreamKey(id), env, st, t), LAMBDA cachedData :
       IF Truthy(cachedData.v) THEN cachedData
       ELSE Let(_getMovieData(id, env, cachedData.st, t), LAMBDA movieData :
         IF ~movieData.ok THEN movieData
         ELSE IF ~Truthy(movieData.v) THEN Returned(movieData.st, NoStreams)
         ELSE Let(_processStreams(movieData.v, id, env, movieData.st),
                  LAMBDA processed :
           Returned(CacheService_set(StreamKey(id),
                                     JObj([streams |-> JArr(processed.streams)]),
                                     env, processed.st, t),
                    JObj([streams |-> JArr(processed.streams)])))))

(***************************** CatalogHandler ******************************)
CatalogLatest ==
  <<"c", "i", "n", "e", "c", "a", "l", "i", "d", "a", "d", "-",
    "l", "a", "t", "e", "s", "t">>
CatalogSearch ==
  <<"c", "i", "n", "e", "c", "a", "l", "i", "d", "a", "d", "-",
    "s", "e", "a", "r", "c", "h">>
SUPPORTED_CATALOGS == {CatalogLatest, CatalogSearch}
DEFAULT_LIMIT == 20
MAX_LIMIT == 100
SearchMaxLen == 100

\* String(n) of an integer
DigitChar(d) ==
  CASE d = 0 -> "0" [] d = 1 -> "1" [] d = 2 -> "2" [] d = 3 -> "3"
    [] d = 4 -> "4" [] d = 5 -> "5" [] d = 6 -> "6" [] d = 7 -> "7"
    [] d = 8 -> "8" [] d = 9 -> "9"

RECURSIVE NatToString(_)
NatToString(n) ==
  IF n < 10 THEN <<DigitChar(n)>>
  ELSE NatToString(n \div 10) \o <<DigitChar(n % 10)>>

NumberToString(n) == IF n < 0 THEN <<"-">> \o NatToString(-n) ELSE NatToString(n)

\* parseInt(x, 10) of undefined, an integer or a string
ParseIntOf(x) ==
  IF x.t = "num" THEN x
  ELSE IF x.t # "str" THEN JNaN
  ELSE LET body == TrimLeft(x.v)
           signed == body # <<>> /\ Head(body) \in {"-", "+"}
           digits == IF signed THEN Tail(body) ELSE body
       IN IF digits = <<>> \/ Head(digits) \notin Digit THEN JNaN
          ELSE IF signed /\ Head(body) = "-"
            THEN JNum(-ParseDigits(digits, 0))
          ELSE JNum(ParseDigits(digits, 0))

\* CatalogHandler._validateRequest(args): the code of the error thrown, ""
\* when none; ErrorCodes has no UNSUPPORTED_TYPE, so that error's code is
\* undefined
Catalog_validateRequest(args) ==
  IF ~Truthy(args) \/ args.t \notin {"obj", "arr"} THEN "INVALID_INPUT"
  ELSE IF Get(args, "type") # JStr(MovieType) THEN "undefined"
  ELSE IF ~Truthy(Get(args, "id")) \/ Get(args, "id").t # "str"
    THEN "INVALID_INPUT"
  ELSE ""

\* variant: every catalog id is supported
_isSupportedCatalog_Any(args) == Get(args, "id").v \in Seq(Printable)

\* CatalogHandler._isSupportedCatalog(args)
_isSupportedCatalog(args) == Get(args, "id").v \in SUPPORTED_CATALOGS

\* CatalogHandler._parseQuery(args), extra.search being absent or a string
_parseQuery(args) ==
  LET extra == Get(args, "extra")
      search == Or(Get(extra, "search"), JStr(<<>>))
      skip == Or(ParseIntOf(Get(extra, "skip")), JNum(0))
      limit == Or(ParseIntOf(Get(extra, "limit")), JNum(DEFAULT_LIMIT))
  IN [search |-> Substring0(Trim(search.v), SearchMaxLen),
      skip |-> IF skip.v > 0 THEN skip.v ELSE 0,
      limit |-> IF limit.v < MAX_LIMIT THEN limit.v ELSE MAX_LIMIT]

\* CatalogHandler._generateCacheKey(query)
CatalogKey(query) ==
  <<"c", "a", "t", "a", "l", "o", "g", "_">> \o query.search \o <<"_">>
    \o NumberToString(query.skip) \o <<"_">> \o NumberToString(query.limit)

\* CatalogHandler._createStremioId(release)
Catalog_createStremioId(release) ==
  IF Truthy(Get(release, "id"))
    THEN JStr(<<"c", "c", "_">> \o Get(release, "id").v)
  ELSE IF Truthy(Get(release, "imdbId"))
          /\ StartsWith(Get(release, "imdbId").v, <<"t", "t">>)
    THEN Get(release, "imdbId")
  ELSE JNull

\* CatalogHandler._parseYear(year)
Catalog_parseYear(year, t) ==
  IF ~Truthy(year) THEN JUndef
  ELSE LET parsed == ParseIntOf(year)
       IN IF parsed.t = "num" /\ parsed.v >= MinYear
             /\ parsed.v <= FullYear(t) + YearSlack
            THEN parsed
          ELSE JUndef

\* CatalogHandler._createMetaFromRelease(release): the fields id, type, name,
\* year and genres; poster and description are built from the release alone
\* and are not part of this model
_createMetaFromRelease(release, t) ==
  IF ~Truthy(Catalog_createStremioId(release)) THEN JNull
  ELSE JObj([id |-> Catalog_createStremioId(release),
             type |-> JStr(MovieType),
             name |-> Or(Get(release, "originalTitle"),
                         Or(Get(release, "title"), JStr(UnknownTitle))),
             year |-> Catalog_parseYear(Get(release, "year"), t),
             genres |-> IF Truthy(Get(release, "category"))
                           /\ Get(release, "category").t = "str"
                          THEN JArr(<<Get(release, "category")>>)
                        ELSE JUndef])

\* CatalogHandler._transformToMetas(releases), releases being an array
_transformToMetas(releases, t) ==
  SelectSeq([i \in 1..Len(releases) |-> _createMetaFromRelease(releases[i], t)],
            LAMBDA meta : meta # JNull)

NoMetas == JObj([metas |-> JArr(<<>>)])

\* CatalogHandler._fetchReleases(query): ErrorCodes has no SERVICE_ERROR, so
\* the error thrown has the code undefined
_fetchReleases(query, env, st) ==
  IF "performQuery" \in env.fail
    THEN Thrown(Call(st, "performQuery"), "undefined")
  ELSE Returned(Call(st, "performQuery"), env.releases)

\* CatalogHandler.handle(args)
CatalogHandler_handle(args, env, st, t) ==
  IF Catalog_validateRequest(args) # ""
    THEN Thrown(st, Catalog_validateRequest(args))
  ELSE IF ~_isSupportedCatalog(args) THEN Returned(st, NoMetas)
  ELSE Let(CacheService_get(CatalogKey(_parseQuery(args)), env, st, t),
           LAMBDA cachedData :
    IF Truthy(cachedData.v) THEN cachedData
    ELSE Let(_fetchReleases(_parseQuery(args), env, cachedData.st),
             LAMBDA releases :
      IF ~releases.ok THEN releases
      ELSE Let(JObj([metas |-> JArr(_transformToMetas(releases.v, t))]),
               LAMBDA result :
        Returned(CacheService_set(CatalogKey(_parseQuery(args)), result,
                                  env, releases.st, t),
                 result))))

(***************************** CineCalidadAddon ****************************)
\* the codes of the errors made by createError; anything else thrown is no
\* AppError
AppErrorCodes ==
  {"INVALID_INPUT", "INVALID_ID_FORMAT", "UNSUPPORTED_ID_TYPE",
   "EXTERNAL_SERVICE_ERROR", "SCRAPING_ERROR"}

\* ErrorHandler.handle(error, context): the fields success, error.code and
\* error.retryable of its result
ErrorHandler_handle(err) ==
  JObj([success |-> JBool(FALSE),
        error |->
          JObj([code |-> [t |-> "code",
                          v |-> IF err \in AppErrorCodes THEN err
                                ELSE "INTERNAL_ERROR"],
                retryable |-> JBool(err = "EXTERNAL_SERVICE_ERROR")])])

\* the function CineCalidadAddon._createStreamHandler gives the protocol
\* layer: args.type is read for the log inside the try block and again in
\* the catch block
_createStreamHandler(args, env, st, t) ==
  IF args.t \in {"null", "undefined"} THEN Thrown(st, "TypeError")
  ELSE Let(StreamHandler_handle(args, env, st, t), LAMBDA result :
    IF result.ok THEN result
    ELSE Returned(result.st, ErrorHandler_handle(result.err)))

(************************* requests and environment ************************)
SeriesType == <<"s", "e", "r", "i", "e", "s">>

\* "tt1234567"
IdTT == <<"t", "t", "1", "2", "3", "4", "5", "6", "7">>
\* "tt" followed by 99 digits: 101 characters, one more than sanitizeId keeps
IdTTLong == <<"t", "t">> \o Repeat("1", SanitizeMaxLen - 1)
\* "cc_a-b"
IdCC == <<"c", "c", "_", "a", "-", "b">>

MovieArgs(id) == JObj([type |-> JStr(MovieType), id |-> id])

\* a Release as CineCalidadService.parseReleases builds it
Release(id, title) ==
  JObj([id |-> JStr(id),
        title |-> JStr(title),
        originalTitle |-> JStr(title),
        year |-> JStr(<<"2", "0", "2", "3">>),
        detailsLink |-> JStr(<<"/">> \o id),
        category |-> JStr(MovieType),
        quality |-> JStr(<<"1", "0", "8", "0", "p">>),
        imdbId |-> JNull])

ReleaseOther == Release(<<"z", "z">>, <<"Z">>)
ReleaseExact == Release(<<"a", "-", "b">>, <<"A", " ", "(", "1", ")">>)

ImdbOfDetails == <<"t", "t", "7", "6", "5", "4", "3", "2", "1">>
MagnetUrl == <<"m", "a", "g", "n", "e", "t", ":", "1">>
DirectUrl == <<"h", "t", "t", "p", ":", "/", "/", "d">>

\* a MovieDetails as CineCalidadService.getMovieDetails builds it
Details1 ==
  JObj([imdbId |-> JStr(ImdbOfDetails),
        title |-> JStr(<<"A">>),
        downloadLinks |->
          JArr(<<JObj([name |-> JStr(<<"7", "2", "0", "P">>),
                       url |-> JStr(MagnetUrl),
                       type |-> JStr(<<"m">>)]),
                 JObj([name |-> JStr(<<"4", "K">>),
                       url |-> JStr(DirectUrl),
                       type |-> JStr(<<"d">>)])>>)])

ExtMeta1 ==
  JObj([title |-> JStr(<<"A", " ", "(", "1", ")">>),
        originalTitle |-> JStr(<<" ", "A", "1">>),
        year |-> JNum(2023),
        genres |-> JArr(<<JStr(<<"G">>), JStr(<<" ">>)>>)])
\* a metadata object without any field
ExtMeta2 == JObj([x \in {} |-> JNull])

\* a torrent as the torrent parser describes it: a video file and a text file
Torrent1 ==
  JObj([name |-> JStr(<<"T">>),
        infoHash |-> JStr(<<"h", "1">>),
        trackers |-> JArr(<<>>),
        files |-> JArr(<<JObj([name |-> JStr(<<"r", ".", "n", "f", "o">>),
                               index |-> JNum(0)]),
                         JObj([name |-> JStr(<<"v", ".", "M", "K", "V">>),
                               index |-> JNum(1)])>>),
        mainVideoFile |-> JNull])

IsCCId(id) == id.t = "str" /\ StartsWith(id.v, <<"c", "c", "_">>)

FaultSets(S) == {f \in SUBSET S : Cardinality(f) <= MaxFaults}

\* what the Release Lister, the details scraper and the metadata provider
\* return during one request for a cc_ id
ScrapeAnswers ==
  {[releases |-> <<>>, details |-> JNull, ext |-> JNull],
   [releases |-> <<ReleaseOther, ReleaseExact>>, details |-> JNull,
    ext |-> JNull],
   [releases |-> <<ReleaseOther, ReleaseExact>>, details |-> Details1,
    ext |-> JNull],
   [releases |-> <<ReleaseOther, ReleaseExact>>, details |-> Details1,
    ext |-> ExtMeta1]}

\* what the metadata provider returns during one request for a tt id
ProviderAnswers ==
  {[releases |-> <<>>, details |-> JNull, ext |-> x] :
     x \in {JNull, ExtMeta1, ExtMeta2}}

\* the collaborators of the meta handler
MetaCollaborators(id) ==
  IF IsCCId(id)
    THEN {"getCache", "setCache", "getMovie", "findMovieByOriginalId",
          "saveMovie", "performQuery", "getMovieDetails", "getMovieMetadata",
          "metadataBuilder"}
  ELSE {"getCache", "setCache", "getMovieMetadata", "metadataBuilder"}

Env(fail, answers, torrent) ==
  [fail |-> fail, releases |-> answers.releases, details |-> answers.details,
   ext |-> answers.ext, torrent |-> torrent]

\* the environment of a request that reaches no collaborator
QuietEnv == Env({}, [releases |-> <<>>, details |-> JNull, ext |-> JNull], JNull)

\* the environments of a meta request: which collaborators throw and what
\* the others return
MetaEnvs(args) ==
  IF _validateInput(args) # "" \/ Get(args, "type") # JStr(MovieType)
    THEN {QuietEnv}
  ELSE {Env(f, a, JNull) :
          f \in FaultSets(MetaCollaborators(Get(args, "id"))),
          a \in IF IsCCId(Get(args, "id")) THEN ScrapeAnswers
                ELSE ProviderAnswers}

\* stream requests: a cc_ id, a missing id and null
StreamArgs == {MovieArgs(JStr(IdCC)), JObj([type |-> JStr(MovieType)]), JNull}

(******************************* behaviour *********************************)
\* the clock starts at 10:00:00 of a day and then stands 20 minutes later
\* (inside the cache TTL), 60 minutes later (past it, on the same date) and
\* then 8 days later each time (past the retention of `movies`)
StartClock == 10 * 60 * SecondsPerMinute
ClockStep(n) ==
  IF n = 0 THEN 20 * SecondsPerMinute
  ELSE IF n = 1 THEN 40 * SecondsPerMinute
  ELSE 8 * SecondsPerDay

NoCalls == <<>>

Store == [cache |-> cache, movies |-> movies, torrents |-> torrents,
          calls |-> NoCalls]

Init ==
  /\ now = StartClock
  /\ advances = 0
  /\ cache = NoRows
  /\ movies = <<>>
  /\ torrents = NoRows
  /\ last = [kind |-> "none", args |-> JNull, fail |-> {}, ok |-> TRUE,
             resp |-> JNull, calls |-> NoCalls]

\* the collaborators that threw during a request: those set to throw among
\* the ones called
ThrewIn(env, calls) == {c \in env.fail : \E i \in DOMAIN calls : calls[i] = c}

\* a meta request handled from start to end
MetaRequest(args, env) ==
  \E out \in {MetaHandler_handle(args, env, Store, now)} :
    /\ cache' = out.st.cache
    /\ movies' = out.st.movies
    /\ torrents' = out.st.torrents
    /\ last' = [kind |-> "meta", args |-> args,
                fail |-> ThrewIn(env, out.st.calls), ok |-> out.ok,
                resp |-> out.v, calls |-> out.st.calls]
    /\ UNCHANGED <<now, advances>>

\* a stream request handled from start to end
StreamRequest(args, env) ==
  \E out \in {StreamHandler_handle(args, env, Store, now)} :
    /\ cache' = out.st.cache
    /\ movies' = out.st.movies
    /\ torrents' = out.st.torrents
    /\ last' = [kind |-> "stream", args |-> args,
                fail |-> ThrewIn(env, out.st.calls), ok |-> out.ok,
                resp |-> out.v, calls |-> out.st.calls]
    /\ UNCHANGED <<now, advances>>

\* time passes
AdvanceClock ==
  /\ advances < MaxAdvances
  /\ now' = now + ClockStep(advances)
  /\ advances' = advances + 1
  /\ UNCHANGED <<cache, movies, torrents, last>>

\* CacheService._performCleanup, run by each CacheService's interval timer
CacheSweep ==
  /\ cache' = clearExpiredCache(cache, now)
  /\ UNCHANGED <<now, advances, movies, torrents, last>>

\* CineCalidadAddon._performCleanup, run by the addon's interval timer
DatabaseCleanup ==
  /\ cache' = clearExpiredCache(cache, now)
  /\ movies' = cleanupMovies(movies, now)
  /\ UNCHANGED <<now, advances, torrents, last>>

\* the requests of the behaviours: a site id, an external id, one 101
\* characters long, and requests the handler rejects
SiteArgs == MovieArgs(JStr(IdCC))
ImdbArgs == {MovieArgs(JStr(IdTT)), MovieArgs(JStr(IdTTLong))}
RejectedArgs ==
  {JNull, MovieArgs(JStr(<<"t", "t", "1", "2", "3">>)),
   MovieArgs(JStr(<<"c", "c", "_", "A">>)),
   JObj([type |-> JStr(SeriesType), id |-> JStr(IdCC)])}

\* the meta handler serving a site id
Next ==
  \/ \E args \in {SiteArgs} \cup RejectedArgs :
       \E env \in MetaEnvs(args) : MetaRequest(args, env)
  \/ AdvanceClock
  \/ CacheSweep
  \/ DatabaseCleanup

Spec == Init /\ [][Next]_vars

\* the meta handler serving external ids
NextImdb ==
  \/ \E args \in ImdbArgs : \E env \in MetaEnvs(args) : MetaRequest(args, env)
  \/ AdvanceClock
  \/ CacheSweep

SpecImdb == Init /\ [][NextImdb]_vars

\* the meta handler and the stream handler sharing the store
NextStore ==
  \/ \E a \in ScrapeAnswers : MetaRequest(SiteArgs, Env({}, a, JNull))
  \/ \E args \in StreamArgs : \E a \in ScrapeAnswers :
       \E x \in {JNull, Torrent1} : StreamRequest(args, Env({}, a, x))
  \/ AdvanceClock
  \/ DatabaseCleanup

SpecStore == Init /\ [][NextStore]_vars

\* a catalog request handled from start to end
CatalogRequest(args, env) ==
  \E out \in {CatalogHandler_handle(args, env, Store, now)} :
    /\ cache' = out.st.cache
    /\ last' = [kind |-> "catalog", args |-> args,
                fail |-> ThrewIn(env, out.st.calls), ok |-> out.ok,
                resp |-> out.v, calls |-> out.st.calls]
    /\ UNCHANGED <<now, advances, movies, torrents>>

\* catalog requests: the two catalogs, ids that name no catalog, an empty
\* id, and a query with a search text, a skip and a negative limit
CatalogArgs(id, extra) ==
  JObj([type |-> JStr(MovieType), id |-> id, extra |-> extra])
OtherCatalogIds == {<<"x">>, CatalogLatest \o <<"x">>}
CatalogExtras ==
  {JUndef,
   JObj([search |-> JStr(<<"a">>), skip |-> JStr(<<"2", "0">>),
         limit |-> JStr(<<"-", "5">>)])}
CatalogRequests ==
  {CatalogArgs(JStr(CatalogLatest), x) : x \in CatalogExtras}
    \cup {CatalogArgs(JStr(id), JUndef) :
            id \in {CatalogSearch} \cup OtherCatalogIds \cup {<<>>}}
CatalogEnvs ==
  {Env(f, [releases |-> r, details |-> JNull, ext |-> JNull], JNull) :
     f \in FaultSets({"getCache", "setCache", "performQuery"}),
     r \in {<<>>, <<ReleaseOther, ReleaseExact>>}}

\* the catalog handler
NextCatalog ==
  \/ \E args \in CatalogRequests : \E env \in CatalogEnvs :
       CatalogRequest(args, env)
  \/ AdvanceClock
  \/ CacheSweep

SpecCatalog == Init /\ [][NextCatalog]_vars

\* the inputs of the Release Matcher: release ids as extractMovieId yields
\* them (never empty), among them two that agree on their first 15
\* characters, and targets of the form [a-z0-9-]+
IdChars == {"a", "b", "A", "-"}
ShortIds == {<<c>> : c \in IdChars} \cup {<<c, d>> : c \in IdChars, d \in IdChars}
LongPrefix == [i \in 1..FuzzyPrefixLen |-> "a"]
LongIds == {LongPrefix \o <<"a">>, LongPrefix \o <<"b">>}
MatcherIds == ShortIds \cup LongIds
MatcherTargets == {s \in MatcherIds : \A i \in DOMAIN s : s[i] # "A"}
MaxReleases == 2
MatcherLists ==
  UNION {[1..n -> {Release(id, <<"T">>) : id \in MatcherIds}] :
           n \in 0..MaxReleases}

InitMatcher ==
  /\ now = StartClock
  /\ advances = 0
  /\ cache = NoRows
  /\ movies = <<>>
  /\ torrents = NoRows
  /\ \E l \in MatcherLists : \E target \in MatcherTargets :
       last = [kind |-> "releases",
               args |-> [releases |-> l, targetId |-> target],
               fail |-> {}, ok |-> TRUE, resp |-> JNull, calls |-> NoCalls]

\* MetaHandler._findMatchingRelease applied to the releases and the target
FindMatchingRelease ==
  /\ last.kind = "releases"
  /\ last' = [last EXCEPT
                !.kind = "matched",
                !.resp = _findMatchingRelease(last.args.releases,
                                              last.args.targetId)]
  /\ UNCHANGED <<now, advances, cache, movies, torrents>>

NextMatcher == FindMatchingRelease

SpecMatcher == InitMatcher /\ [][NextMatcher]_vars

\* the inputs of the MetadataBuilder: titles that are absent, blank, padded,
\* parenthetical or no string; years that are absent, numbers, strings or no
\* integer; genres, category, quality and imdbId present, empty or absent
TitleValues ==
  {JUndef, JStr(<<>>), JStr(<<" ">>), JStr(<<" ", "A">>), JStr(<<"B", "(">>),
   JStr(<<"C">>), JNum(7)}
YearValues ==
  {JUndef, JNull, JNum(0), JNum(1850), JNum(1899), JNum(1900), JNum(2023),
   JNum(2030), JNum(2031), JNum(2099), JFrac(4047, 2), JFrac(3701, 2),
   JStr(<<"1", "8", "5", "0">>), JStr(<<"2", "0", "2", "3">>),
   JStr(<<"2", "0", "9", "9">>), JStr(<<"2", "0", "2", "3", ".", "5">>),
   JStr(<<"a">>), JStr(<<>>)}
GenreValues ==
  {JUndef, JNull, JArr(<<>>), JArr(<<JStr(<<" ">>), JNull>>),
   JArr(<<JStr(<<"G">>)>>), JStr(<<"G">>)}

ExternalMetaOf(originalTitle, title, year, genres) ==
  JObj([originalTitle |-> originalTitle, title |-> title, year |-> year,
        genres |-> genres])
ReleaseOf(originalTitle, title, year, category, quality) ==
  JObj([id |-> JStr(<<"a", "-", "b">>), originalTitle |-> originalTitle,
        title |-> title, year |-> year, category |-> category,
        quality |-> quality])

BuilderInput(release, movieDetails, externalMeta) ==
  [release |-> release, movieDetails |-> movieDetails,
   externalMeta |-> externalMeta]

TitleInputs ==
  {BuilderInput(ReleaseOf(c, d, JUndef, JUndef, JUndef), JNull,
                ExternalMetaOf(a, b, JUndef, JUndef)) :
     a \in TitleValues, b \in TitleValues, c \in TitleValues, d \in TitleValues}
YearInputs ==
  {BuilderInput(ReleaseOf(JUndef, JStr(<<"C">>), y, JUndef, JUndef), JNull,
                ExternalMetaOf(JUndef, JUndef, x, JUndef)) :
     x \in YearValues, y \in YearValues}
FieldInputs ==
  {BuilderInput(ReleaseOf(JUndef, JStr(<<"C">>), JUndef, c, q), d, e) :
     c \in {JUndef, JNull, JStr(MovieType)},
     q \in {JUndef, JNull, JStr(<<"H", "D">>)},
     d \in {JUndef, JNull, JObj([imdbId |-> JNull]),
            JObj([imdbId |-> JStr(<<"t", "t", "1", "2", "3", "4", "5", "6", "7">>)])},
     e \in {JNull} \cup {ExternalMetaOf(JUndef, JUndef, JUndef, g) :
                            g \in GenreValues}}
  \cup {BuilderInput(JNull, JNull, JNull)}
BuilderInputs == TitleInputs \cup YearInputs \cup FieldInputs

InitBuilder ==
  /\ now = StartClock
  /\ advances = 0
  /\ cache = NoRows
  /\ movies = <<>>
  /\ torrents = NoRows
  /\ \E x \in BuilderInputs :
       last = [kind |-> "input", args |-> x, fail |-> {}, ok |-> TRUE,
               resp |-> JNull, calls |-> NoCalls]

Built(builder, ok, meta) ==
  [last EXCEPT !.kind = builder, !.ok = ok, !.resp = meta]

\* MetadataBuilder.buildFromIMDB(id, metadata) applied to the external
\* metadata, which its caller has found to be an object
BuildFromIMDB ==
  /\ last.kind = "input"
  /\ last.args.externalMeta.t = "obj"
  /\ last' = Built("imdb", TRUE,
                   buildFromIMDB(<<"t", "t", "1", "2", "3", "4", "5", "6", "7">>,
                                 last.args.externalMeta, now))
  /\ UNCHANGED <<now, advances, cache, movies, torrents>>

\* MetadataBuilder.buildFromCatalogData(catalogData, id)
BuildFromCatalogData ==
  /\ last.kind = "input"
  /\ \E built \in {buildFromCatalogData(JObj(last.args), IdCC, now)} :
       last' = Built("catalog", built.ok, built.v)
  /\ UNCHANGED <<now, advances, cache, movies, torrents>>

\* MetadataBuilder.buildFromScrapedData(scrapedData), whose release its
\* caller has found
BuildFromScrapedData ==
  /\ last.kind = "input"
  /\ last.args.release.t = "obj"
  /\ last' = Built("scraped", TRUE,
                   buildFromScrapedData(last.args.release,
                                        last.args.movieDetails,
                                        last.args.externalMeta, IdCC, now))
  /\ UNCHANGED <<now, advances, cache, movies, torrents>>

NextBuilder ==
  \/ BuildFromIMDB
  \/ BuildFromCatalogData
  \/ BuildFromScrapedData

SpecBuilder == InitBuilder /\ [][NextBuilder]_vars

\* the inputs of the torrent projection: TorrentInfos as _fetchTorrentInfo
\* builds them, whose file list is absent or holds up to MaxFiles files as
\* the torrent parser lists them (name, index = position in the list)
FileNames ==
  {<<"r", ".", "n", "f", "o">>, <<"v", ".", "M", "K", "V">>,
   <<"a", ".", "b", ".", "m", "p", "4">>, <<"x", ".", "m", "p", "4", ".", "t">>}
MaxFiles == 3
FileLists ==
  UNION {{[i \in 1..n |-> JObj([name |-> JStr(names[i]), index |-> JNum(i - 1)])] :
            names \in [1..n -> FileNames]} : n \in 0..MaxFiles}
MainVideoFiles ==
  {JNull, JObj([name |-> JStr(<<"v", ".", "M", "K", "V">>), index |-> JNum(0)])}
MagnetInfos ==
  {JObj([displayName |-> JStr(<<"T">>), hash |-> JStr(<<"h", "1">>),
         trackers |-> JArr(<<>>), files |-> f, mainVideoFile |-> m]) :
     f \in {JUndef} \cup {JArr(l) : l \in FileLists}, m \in MainVideoFiles}

InitProjector ==
  /\ now = StartClock
  /\ advances = 0
  /\ cache = NoRows
  /\ movies = <<>>
  /\ torrents = NoRows
  /\ \E magnetInfo \in MagnetInfos :
       last = [kind |-> "magnetInfo", args |-> magnetInfo, fail |-> {},
               ok |-> TRUE, resp |-> JNull, calls |-> NoCalls]

\* TorrentInfoService._createStreamsFromTorrent applied to the TorrentInfo
CreateStreamsFromTorrent ==
  /\ last.kind = "magnetInfo"
  /\ last' = [last EXCEPT
                !.kind = "projected",
                !.resp = JArr(_createStreamsFromTorrent(last.args, JNull, IdCC))]
  /\ UNCHANGED <<now, advances, cache, movies, torrents>>

NextProjector == CreateStreamsFromTorrent

SpecProjector == InitProjector /\ [][NextProjector]_vars

\* StreamHandler._processStreams with its magnet inspections in flight.
\* last.resp holds, per magnet link, the streams processLink returned or
\* Pending while its inspection has not settled; last.calls the magnet URIs
\* handed to the torrent inspector, last.settled the link whose inspection
\* settled last, last.inOrder whether the inspections have settled in link
\* order so far, last.fail the links whose inspection failed.
Pending == [t |-> "pending"]

MagnetUrl2 == <<"m", "a", "g", "n", "e", "t", ":", "2">>
MagnetLinks ==
  {JObj([name |-> JStr(<<"7", "2", "0", "P">>), url |-> JStr(u)]) :
     u \in {MagnetUrl, MagnetUrl2}}
DirectLink == JObj([name |-> JStr(<<"4", "K">>), url |-> JStr(DirectUrl)])
MaxLinks == 3
DownloadLinkLists ==
  UNION {[1..n -> MagnetLinks \cup {DirectLink}] : n \in 0..MaxLinks}

\* what the torrent inspector finds behind a magnet URI: one video file
\* behind the first URI, two behind the second
TorrentAt(url) ==
  JObj([name |-> JStr(<<"T">>),
        infoHash |-> JStr(<<"h">> \o SubstringFrom(url, 7)),
        trackers |-> JArr(<<>>),
        files |->
          JArr(<<JObj([name |-> JStr(<<"v", ".", "M", "K", "V">>),
                       index |-> JNum(0)])>>
               \o (IF url = MagnetUrl2
                     THEN <<JObj([name |-> JStr(<<"w", ".", "m", "p", "4">>),
                                  index |-> JNum(1)])>>
                     ELSE <<>>)),
        mainVideoFile |-> JNull])

InspectionOutcomes == {"throws", "null", "info"}

\* the environment of one inspection
InspectionEnv(outcome, url) ==
  Env(IF outcome = "throws" THEN {"getTorrentInfo"} ELSE {},
      [releases |-> <<>>, details |-> JNull, ext |-> JNull],
      IF outcome = "info" THEN TorrentAt(url) ELSE JNull)

InitMagnets ==
  /\ now = StartClock
  /\ advances = 0
  /\ cache = NoRows
  /\ movies = <<>>
  /\ torrents = NoRows
  /\ last = [kind |-> "none", args |-> JNull, fail |-> {}, ok |-> TRUE,
             resp |-> <<>>, calls |-> NoCalls, settled |-> 0,
             inOrder |-> TRUE]

LinksOf(movieData) ==
  Get(Get(movieData, "movieDetails"), "downloadLinks").v
MagnetLinksOf(movieData) == SelectSeq(LinksOf(movieData), IsMagnet)

\* _processStreams up to `await Promise.allSettled`: every processLink runs
\* up to its first await, which is reached only when getTorrent finds
\* nothing
StartProcessStreams(links) ==
  /\ last.kind # "inspecting"
  /\ \E movieData \in {JObj([movieDetails |-> JObj([downloadLinks |-> JArr(links)])])} :
       last' = [kind |-> "inspecting", args |-> movieData, fail |-> {},
                ok |-> TRUE,
                resp |->
                  [i \in 1..Len(MagnetLinksOf(movieData)) |->
                     IF Truthy(getTorrent(torrents,
                                          Get(MagnetLinksOf(movieData)[i], "url").v))
                       THEN JArr(_createStreamsFromTorrent(
                                   getTorrent(torrents,
                                              Get(MagnetLinksOf(movieData)[i], "url").v),
                                   movieData, IdCC))
                     ELSE Pending],
                calls |->
                  SelectSeq([i \in 1..Len(MagnetLinksOf(movieData)) |->
                               Get(MagnetLinksOf(movieData)[i], "url").v],
                            LAMBDA u : ~Truthy(getTorrent(torrents, u))),
                settled |-> 0, inOrder |-> TRUE]
  /\ UNCHANGED <<now, advances, cache, movies, torrents>>

\* the inspection of the i-th magnet link settles and its processLink runs
\* to its end: _fetchTorrentInfo, saveTorrent, _createStreamsFromTorrent
InspectionSettles(i, outcome) ==
  /\ last.kind = "inspecting"
  /\ i \in DOMAIN last.resp
  /\ last.resp[i] = Pending
  /\ \E url \in {Get(MagnetLinksOf(last.args)[i], "url").v} :
       \E magnetInfo \in {_fetchTorrentInfo(InspectionEnv(outcome, url), Store).v} :
         IF Truthy(magnetInfo)
           THEN /\ torrents' = saveTorrent(torrents, url, magnetInfo)
                /\ last' = [last EXCEPT
                              !.resp[i] = JArr(_createStreamsFromTorrent(
                                                 magnetInfo, last.args, IdCC)),
                              !.settled = i,
                              !.inOrder = @ /\ last.settled < i]
           ELSE /\ torrents' = torrents
                /\ last' = [last EXCEPT
                              !.resp[i] = JArr(<<>>),
                              !.fail = @ \cup {i},
                              !.settled = i,
                              !.inOrder = @ /\ last.settled < i]
  /\ UNCHANGED <<now, advances, cache, movies>>

\* variant: the first inspection without streams ends the gathering
RECURSIVE FlattenStreams_UntilFailure(_)
FlattenStreams_UntilFailure(results) ==
  IF results = <<>> \/ Head(results).v = <<>> THEN <<>>
  ELSE Head(results).v \o FlattenStreams_UntilFailure(Tail(results))

\* the forEach over the settled results in _processMagnetLinks
RECURSIVE FlattenStreams(_)
FlattenStreams(results) ==
  IF results = <<>> THEN <<>>
  ELSE Head(results).v \o FlattenStreams(Tail(results))

\* every inspection has settled: _processMagnetLinks gathers the results in
\* link order and _processStreams appends the download descriptors
FinishProcessStreams ==
  /\ last.kind = "inspecting"
  /\ \A i \in DOMAIN last.resp : last.resp[i] # Pending
  /\ last' = [last EXCEPT
                !.kind = "streams",
                !.resp =
                  JArr(FlattenStreams(last.resp)
                       \o _processDownloadLinks(
                            SelectSeq(LinksOf(last.args),
                                      LAMBDA l : Truthy(Get(l, "url")) /\ ~IsMagnet(l)),
                            last.args, IdCC))]
  /\ UNCHANGED <<now, advances, cache, movies, torrents>>

NextMagnets ==
  \/ \E links \in DownloadLinkLists : StartProcessStreams(links)
  \/ \E i \in 1..MaxLinks : \E outcome \in InspectionOutcomes :
       InspectionSettles(i, outcome)
  \/ FinishProcessStreams

SpecMagnets == InitMagnets /\ [][NextMagnets]_vars

(******************************* properties *********************************)
Range(f) == {f[i] : i \in DOMAIN f}

\* the id forms ^tt\d{7,}$ and ^cc_[a-z0-9-]+$
MatchesImdbForm(s) ==
  /\ Len(s) >= 2 + ImdbMinDigits
  /\ SubSeq(s, 1, 2) = <<"t", "t">>
  /\ \A i \in 3..Len(s) : s[i] \in Digit
MatchesSiteForm(s) ==
  /\ Len(s) >= 4
  /\ SubSeq(s, 1, 3) = <<"c", "c", "_">>
  /\ \A i \in 4..Len(s) : s[i] \in Lower \cup Digit \cup {"-"}

\* the instant a cache row expires: its write time plus the TTL
ExpiryInstant(row) == row.expires_at[1] * SecondsPerDay + row.expires_at[3]

\* the `meta` of a response
MetaOf(resp) == Get(resp, "meta")

\* a meta record: an object with the id, the type "movie" and a name
IsMetaRecord(m) ==
  /\ m.t = "obj"
  /\ {"id", "type", "name"} \subseteq DOMAIN m.v
  /\ m.v.type = JStr(MovieType)
  /\ m.v.name.t = "str"

IsMetaResponse(resp) ==
  /\ resp.t = "obj"
  /\ DOMAIN resp.v = {"meta"}
  /\ (resp.v.meta = JNull \/ IsMetaRecord(resp.v.meta))

\* the outcome of a meta request made in the current state
MetaOutcome(args, env) == MetaHandler_handle(args, env, Store, now)

\* C1, as claimed: every meta request returns, without throwing, an object
\* {meta: m} where m is null or a meta record.
C1_WellFormedResponse ==
  last.kind = "meta" => last.ok /\ IsMetaResponse(last.resp)

\* the sources of a site-id resolution, in the order of the claim
SourceOrder ==
  <<"getCache", "getMovie", "findMovieByOriginalId", "performQuery">>

IsPrefixOf(a, b) == Len(a) <= Len(b) /\ SubSeq(b, 1, Len(a)) = a

ScrapeCalls ==
  {"findMovieByOriginalId", "performQuery", "getMovieDetails",
   "getMovieMetadata"}

\* what the catalog scan finds for the id fragment of IdCC
CatalogRow == Get(findMovieByOriginalId(movies, SubstringFrom(IdCC, 3)), "data")

\* C2: a site-id resolution consults cache, persisted record, catalog scan
\* and live scrape in this order, each at most once, and consults no source
\* after the first that yields a result; a persisted record with `meta`
\* means no catalog scan, no scrape, no details and no provider call.
C2_SourceOrder ==
  \A env \in MetaEnvs(SiteArgs) :
    LET calls == MetaOutcome(SiteArgs, env).st.calls
        consulted == SelectSeq(calls, LAMBDA c : c \in Range(SourceOrder))
        cacheYields ==
          "getCache" \notin env.fail /\ Truthy(getCache(cache, MetaKey(IdCC), now))
        savedYields ==
          "getMovie" \notin env.fail /\ Truthy(Get(getMovie(movies, IdCC), "meta"))
        catalogYields ==
          /\ "findMovieByOriginalId" \notin env.fail
          /\ \/ Truthy(Get(Get(CatalogRow, "meta"), "meta"))
             \/ Truthy(Get(CatalogRow, "release"))
                  /\ "metadataBuilder" \notin env.fail
    IN /\ IsPrefixOf(consulted, SourceOrder)
       /\ Len(consulted) >= 1
       /\ cacheYields <=> Len(consulted) = 1
       /\ ~cacheYields /\ savedYields => Len(consulted) = 2
       /\ ~cacheYields /\ savedYields => Range(calls) \cap ScrapeCalls = {}
       /\ ~cacheYields /\ ~savedYields /\ catalogYields => Len(consulted) = 3
       /\ ~cacheYields /\ ~savedYields /\ ~catalogYields => Len(consulted) = 4

\* a request served by the persisted record alone
C2_Witness ==
  /\ last.kind = "meta" /\ last.args = SiteArgs
  /\ last.calls = <<"getCache", "getMovie", "setCache">>
  /\ Truthy(MetaOf(last.resp))

CacheCalls == {"getCache", "setCache"}

\* C3: after a meta request for an id returned a non-null meta with the
\* cache working, a request for the same id made before the entry's expiry
\* instant returns the same response and calls nothing but the cache read,
\* whatever the other collaborators would return or throw.
C3_Idempotent ==
  (/\ last.kind = "meta"
   /\ last.args = SiteArgs
   /\ Truthy(MetaOf(last.resp))
   /\ last.fail \cap CacheCalls = {}
   /\ MetaKey(IdCC) \in DOMAIN cache
   /\ now < ExpiryInstant(cache[MetaKey(IdCC)]))
  => \A env \in MetaEnvs(SiteArgs) :
       "getCache" \notin env.fail =>
         /\ MetaOutcome(SiteArgs, env).v = last.resp
         /\ MetaOutcome(SiteArgs, env).st.calls = <<"getCache">>

\* a second request answered from the cache 20 minutes after the first
C3_Witness ==
  /\ last.kind = "meta" /\ last.args = SiteArgs
  /\ Truthy(MetaOf(last.resp))
  /\ last.calls = <<"getCache">>
  /\ advances = 1
  /\ MetaKey(IdCC) \in DOMAIN cache
  /\ now < ExpiryInstant(cache[MetaKey(IdCC)])

\* C4, as claimed: a read of a cache entry after its expiry instant is a
\* miss, whether or not the expiry sweep has run.
C4_NoStaleRead ==
  \A key \in DOMAIN cache :
    now > ExpiryInstant(cache[key]) => getCache(cache, key, now) = JNull

\* C5, as claimed: a meta request that returns a non-null meta without a
\* cache hit, with no collaborator failing, has saved a record under the
\* request id and cached the response under meta:<id> for 30 minutes.
C5_WriteThrough ==
  \A args \in ImdbArgs \cup {SiteArgs} :
    \A env \in MetaEnvs(args) :
      LET out == MetaOutcome(args, env)
          id == sanitizeId(Get(args, "id")).v
      IN (env.fail = {} /\ Truthy(MetaOf(out.v))
            /\ out.st.calls # <<"getCache">>)
         => /\ "saveMovie" \in Range(out.st.calls)
            /\ Truthy(getMovie(out.st.movies, id))
            /\ MetaKey(id) \in DOMAIN out.st.cache
            /\ out.st.cache[MetaKey(id)] =
                 [data |-> out.v,
                  expires_at |->
                    ToISOString(now + CacheTtlMinutes * SecondsPerMinute)]

\* the persisted record of an id has `meta` populated
HasMeta(m, id) == Truthy(Get(getMovie(m, id), "meta"))

\* C6, as claimed: once the persisted record of an id has `meta` populated
\* it keeps it through every meta request, stream request and cleanup run.
C6_MetaKept == [][HasMeta(movies, IdCC) => HasMeta(movies', IdCC)]_vars

\* environments in which every collaborator answers; one of them throws in
\* some
ProbeEnvs ==
  {Env(f, a, JNull) :
     f \in {{}, {"getCache"}, {"getMovieMetadata"}},
     a \in {x \in ScrapeAnswers : x.ext # JNull}}

\* ids of every shape: the two forms, too few digits, upper case, a stray
\* blank, an empty slug, an underscore in the slug, no prefix, the empty
\* string and a number
CandidateIds ==
  {JStr(IdTT), JStr(IdCC),
   JStr(<<"t", "t", "1", "2", "3">>),
   JStr(<<"t", "t", "1", "2", "3", "4", "5", "6", "x">>),
   JStr(<<"T", "T", "1", "2", "3", "4", "5", "6", "7">>),
   JStr(<<" ">> \o IdTT),
   JStr(IdTT \o <<"\n">>),
   JStr(<<"c", "c", "_">>),
   JStr(<<"c", "c", "_", "A">>),
   JStr(<<"c", "c", "_", "a", "_", "b">>),
   JStr(<<"a", "-", "b">>),
   JStr(<<>>),
   JNum(5)}

MatchesAForm(id) ==
  id.t = "str" /\ (MatchesImdbForm(id.v) \/ MatchesSiteForm(id.v))

\* C7: a movie meta request whose id has neither form returns {meta: null}
\* and calls no collaborator, so cache, movies and torrents stay as they are.
C7_OtherIdsRejected ==
  \A id \in CandidateIds :
    \A env \in ProbeEnvs :
      LET out == MetaOutcome(MovieArgs(id), env)
      IN ~MatchesAForm(id) =>
           /\ out.ok /\ out.v = NullMeta
           /\ out.st = Store

\* a rejected id, asked for while the store holds a record and a cache entry
C7_Witness ==
  /\ last.kind = "meta"
  /\ last.args = MovieArgs(JStr(<<"t", "t", "1", "2", "3">>))
  /\ last.resp = NullMeta /\ last.calls = NoCalls
  /\ movies # <<>> /\ DOMAIN cache # {}

\* C8, as claimed: a movie meta request for an id of the form tt\d{7,}
\* returns {meta: null} or a meta whose imdbId is the requested id and whose
\* name is a non-empty string.
C8_ImdbIdKept ==
  (last.kind = "meta" /\ last.args \in ImdbArgs)
  => \/ last.resp = NullMeta
     \/ /\ Get(MetaOf(last.resp), "imdbId") = Get(last.args, "id")
        /\ Get(MetaOf(last.resp), "name").t = "str"
        /\ Get(MetaOf(last.resp), "name").v # <<>>

\* requests of another type: series, a type that is no string, with an id
\* of either form or of none
OtherTypeArgs ==
  {JObj([type |-> ty, id |-> id]) :
     ty \in {JStr(SeriesType), JNum(1), JStr(<<"M", "o", "v", "i", "e">>)},
     id \in {JStr(IdTT), JStr(IdCC), JStr(<<"a", "-", "b">>)}}

\* C9: a meta request whose type is not "movie" returns {meta: null} and
\* calls no collaborator.
C9_OtherTypesRejected ==
  \A args \in OtherTypeArgs :
    \A env \in ProbeEnvs :
      LET out == MetaOutcome(args, env)
      IN out.ok /\ out.v = NullMeta /\ out.st = Store

\* a series request for an id the store holds a record and a cache entry of
C9_Witness ==
  /\ last.kind = "meta"
  /\ last.args = JObj([type |-> JStr(SeriesType), id |-> JStr(IdCC)])
  /\ last.resp = NullMeta /\ last.calls = NoCalls
  /\ Truthy(getMovie(movies, IdCC)) /\ MetaKey(IdCC) \in DOMAIN cache

\* nothing is stored for the id: no cache row, no record, no catalog row
NothingStored ==
  /\ MetaKey(IdCC) \notin DOMAIN cache
  /\ getMovie(movies, IdCC) = JNull
  /\ findMovieByOriginalId(movies, SubstringFrom(IdCC, 3)) = JNull

\* C10: when nothing is stored for a site id and the Release Lister returns
\* no release, the meta request returns {meta: null}, calls saveMovie never,
\* and leaves movies as they are and the cache without a row meta:<id>.
C10_FailureLeavesNoTrace ==
  NothingStored =>
    \A env \in MetaEnvs(SiteArgs) :
      LET out == MetaOutcome(SiteArgs, env)
      IN env.releases = <<>> =>
           /\ out.ok /\ out.v = NullMeta
           /\ "saveMovie" \notin Range(out.st.calls)
           /\ out.st.movies = movies
           /\ MetaKey(IdCC) \notin DOMAIN out.st.cache

\* a resolution that went through every source and found nothing
C10_Witness ==
  /\ last.kind = "meta" /\ last.args = SiteArgs
  /\ last.resp = NullMeta
  /\ last.calls =
       <<"getCache", "getMovie", "findMovieByOriginalId", "performQuery">>
  /\ last.fail = {}
  /\ NothingStored

\* the outcome of a stream request made in the current state
StreamOutcome(args, env) == StreamHandler_handle(args, env, Store, now)

\* the call that follows the first call of `name`, "" when there is none
CallAfter(calls, name) ==
  LET at == {i \in DOMAIN calls : calls[i] = name}
      first == CHOOSE i \in at : \A j \in at : i <= j
  IN IF at = {} \/ first = Len(calls) THEN "" ELSE calls[first + 1]

StoreReads == {"getCache", "getMovie", "findMovieByOriginalId"}
StoreWrites == {"setCache", "saveMovie"}

\* a store read that throws is a miss: the request does not fail and goes on
\* to the source `next`; a store write that throws is swallowed: the
\* response is the one of the same request without the fault
DegradesGracefully(out, plain, f, next) ==
  /\ out.ok
  /\ (f \in StoreReads /\ f \in Range(out.st.calls))
       => CallAfter(out.st.calls, f) = next
  /\ f \in StoreWrites => out.v = plain.v

\* C11, as claimed: in the meta and in the stream handler a throwing
\* getCache, getMovie or findMovieByOriginalId is a miss after which the next
\* source is consulted, and a throwing setCache or saveMovie leaves the
\* response as it is without the fault.
C11_StoreFaultsDegrade ==
  \A a \in ScrapeAnswers :
    /\ \A f \in StoreReads \cup StoreWrites :
         DegradesGracefully(
           MetaOutcome(SiteArgs, Env({f}, a, JNull)),
           MetaOutcome(SiteArgs, Env({}, a, JNull)),
           f,
           CASE f = "getCache" -> "getMovie"
             [] f = "getMovie" -> "findMovieByOriginalId"
             [] OTHER -> "performQuery")
    /\ \A f \in {"getCache", "getMovie"} \cup StoreWrites :
         DegradesGracefully(
           StreamOutcome(SiteArgs, Env({f}, a, Torrent1)),
           StreamOutcome(SiteArgs, Env({}, a, Torrent1)),
           f,
           IF f = "getCache" THEN "getMovie" ELSE "performQuery")

\* the part of C11 that is about the meta handler
C11_MetaPart ==
  \A a \in ScrapeAnswers :
    \A f \in StoreReads \cup StoreWrites :
      DegradesGracefully(
        MetaOutcome(SiteArgs, Env({f}, a, JNull)),
        MetaOutcome(SiteArgs, Env({}, a, JNull)),
        f,
        CASE f = "getCache" -> "getMovie"
          [] f = "getMovie" -> "findMovieByOriginalId"
          [] OTHER -> "performQuery")

\* a stream response: an object {streams: [...]}
IsStreamResponse(resp) ==
  /\ resp.t = "obj"
  /\ DOMAIN resp.v = {"streams"}
  /\ resp.v.streams.t = "arr"

StreamFaults ==
  {{}, {"getMovie"}, {"saveMovie"}, {"performQuery"}, {"getMovieDetails"},
   {"getMovieMetadata"}, {"getTorrent"}, {"saveTorrent"}, {"getTorrentInfo"}}

\* C12, as claimed: for every stream request, one without id or type
\* included, and every failing collaborator, the addon's stream handler
\* returns an object {streams: [...]} and does not throw.
C12_StreamResponseWellFormed ==
  \A args \in StreamArgs :
    \A f \in StreamFaults :
      \A a \in ScrapeAnswers :
        LET out == _createStreamHandler(args, Env(f, a, Torrent1), Store, now)
        IN out.ok /\ IsStreamResponse(out.v)

\* the part of C12 about requests with id and type and no failing store
C12_ValidRequestPart ==
  \A f \in StreamFaults \ {{"getMovie"}} :
    \A a \in ScrapeAnswers :
      LET out == _createStreamHandler(SiteArgs, Env(f, a, Torrent1), Store, now)
      IN out.ok /\ IsStreamResponse(out.v)

\* stream requests that are null or undefined or lack id or type
InvalidStreamArgs ==
  {JNull, JUndef, JObj([type |-> JStr(MovieType)]), JObj([id |-> JStr(IdCC)]),
   JObj([id |-> JStr(<<>>), type |-> JStr(MovieType)])}

RejectedUntouched(out) ==
  /\ ~out.ok
  /\ out.err = "INVALID_INPUT"
  /\ out.st = Store

\* C13, as claimed: StreamHandler.handle rejects with INVALID_INPUT every
\* args that is null or lacks id or type, and calls neither the cache, the
\* store nor any service.
C13_InvalidStreamRejected ==
  \A args \in InvalidStreamArgs :
    \A a \in ScrapeAnswers :
      RejectedUntouched(StreamOutcome(args, Env({}, a, Torrent1)))

\* the part of C13 about args that are an object
C13_ObjectPart ==
  \A args \in {x \in InvalidStreamArgs : x.t = "obj"} :
    \A a \in ScrapeAnswers :
      RejectedUntouched(StreamOutcome(args, Env({}, a, Torrent1)))

CatalogOutcome(args, env) == CatalogHandler_handle(args, env, Store, now)

EmptyCatalogUntouched(id) ==
  \A x \in CatalogExtras :
    \A env \in CatalogEnvs :
      LET out == CatalogOutcome(CatalogArgs(id, x), env)
      IN out.ok /\ out.v = NoMetas /\ out.st = Store

ExactAt(l, target) == {i \in DOMAIN l : Get(l[i], "id") = JStr(target)}

\* the fuzzy condition on a candidate id and a target, both normalized
\* (lower-cased, `-`, whitespace and `_` removed)
Qualifies(candidate, target) ==
  LET nt == normalizeId(target)
      nc == normalizeId(candidate)
      minLength == Min(15, Min(Len(nt), Len(nc)))
      prefix == SubSeq(nt, 1, minLength)
  IN \/ prefix = SubSeq(nc, 1, minLength)
     \/ \E k \in 0..(Len(nc) - minLength) : SubSeq(nc, k + 1, k + minLength) = prefix

QualifiesAt(l, target) == {i \in DOMAIN l : Qualifies(Get(l[i], "id").v, target)}

Least(S) == CHOOSE i \in S : \A j \in S : i <= j

\* C15: whenever some release of the list has an id exactly equal to the
\* target, the matcher returns the first such release, even if an earlier
\* release satisfies the fuzzy condition.
C15_ExactMatchFirst ==
  (last.kind = "matched" /\ ExactAt(last.args.releases, last.args.targetId) # {})
    => last.resp =
         last.args.releases[Least(ExactAt(last.args.releases,
                                          last.args.targetId))]

\* the second release is the exact match and was returned although the first
\* one satisfies the fuzzy condition
C15_Witness ==
  /\ last.kind = "matched"
  /\ ExactAt(last.args.releases, last.args.targetId) = {2}
  /\ 1 \in QualifiesAt(last.args.releases, last.args.targetId)
  /\ last.resp = last.args.releases[2]

\* C16: when no release id equals the target, the matcher returns the first
\* release in list order whose id satisfies the fuzzy condition (equal
\* prefixes of length min(15, |target|, |candidate|) of the normalized ids,
\* or the candidate containing that prefix of the target), and no release
\* when none does or the list is empty.
C16_FuzzyFallback ==
  (last.kind = "matched" /\ ExactAt(last.args.releases, last.args.targetId) = {})
    => IF QualifiesAt(last.args.releases, last.args.targetId) # {}
         THEN last.resp =
                last.args.releases[Least(QualifiesAt(last.args.releases,
                                                     last.args.targetId))]
       ELSE ~Truthy(last.resp)

\* no exact match; the first release does not qualify and the second one,
\* which only contains the target's prefix, was returned
C16_Witness ==
  /\ last.kind = "matched"
  /\ ExactAt(last.args.releases, last.args.targetId) = {}
  /\ QualifiesAt(last.args.releases, last.args.targetId) = {2}
  /\ ~StartsWith(normalizeId(Get(last.args.releases[2], "id").v),
                 normalizeId(last.args.targetId))
  /\ last.resp = last.args.releases[2]

\* C17, as claimed: when the target normalizes to the empty string, the
\* matcher returns no release for any non-empty list without exact match.
C17_EmptyTargetNoRelease ==
  (/\ last.kind = "matched"
   /\ normalizeId(last.args.targetId) = <<>>
   /\ last.args.releases # <<>>
   /\ ExactAt(last.args.releases, last.args.targetId) = {})
    => ~Truthy(last.resp)

\* the metadata a builder returned
WasBuilt == last.kind \in {"imdb", "catalog", "scraped"} /\ last.ok

\* the name candidates of the builder that ran, in order
NameCandidates ==
  <<Get(last.args.externalMeta, "originalTitle"),
    Get(last.args.externalMeta, "title")>>
  \o (IF last.kind = "imdb" THEN <<>>
      ELSE <<Get(last.args.release, "originalTitle"),
             Get(last.args.release, "title")>>)

ValidNames ==
  {i \in DOMAIN NameCandidates :
     NameCandidates[i].t = "str" /\ Trim(NameCandidates[i].v) # <<>>}
PlainNames ==
  {i \in ValidNames :
     \A k \in DOMAIN NameCandidates[i].v : NameCandidates[i].v[k] # "("}

\* C18: in all three builders, name is the first candidate, in the order
\* externalMeta.originalTitle, externalMeta.title, release.originalTitle,
\* release.title, that is a non-empty string after trimming and has no "(";
\* the first valid candidate if all of them have one; "Unknown Title" if no
\* candidate is valid.  The candidate is returned trimmed.
C18_NameSelection ==
  WasBuilt =>
    last.resp.v.name =
      IF PlainNames # {} THEN JStr(Trim(NameCandidates[Least(PlainNames)].v))
      ELSE IF ValidNames # {} THEN JStr(Trim(NameCandidates[Least(ValidNames)].v))
      ELSE JStr(UnknownTitle)

\* the external metadata's original title is valid with a parenthesis, and
\* the release's title, the first one without, became the name
C18_Witness ==
  /\ WasBuilt
  /\ last.kind # "imdb"
  /\ 1 \in ValidNames
  /\ Least(PlainNames \cup {5}) = 4
  /\ last.resp.v.name = JStr(Trim(NameCandidates[4].v))

\* the year a builder reads: externalMeta.year, or release.year when that is
\* falsy (buildFromIMDB has no release)
InputYear ==
  IF last.kind = "imdb" THEN Get(last.args.externalMeta, "year")
  ELSE Or(Get(last.args.externalMeta, "year"), Get(last.args.release, "year"))

ValidYear(y, t) ==
  y.t = "num" /\ MinYear <= y.v /\ y.v <= FullYear(t) + YearSlack

\* C19, as claimed: in the output of every builder, year is absent or an
\* integer y with 1900 <= y <= currentYear + 5, whatever number or numeric
\* string the input year is; 1850 and 2099 are dropped and 2023 is kept.
C19_YearValid ==
  WasBuilt =>
    /\ "year" \in DOMAIN last.resp.v => ValidYear(last.resp.v.year, now)
    /\ InputYear \in {JNum(1850), JNum(2099)} => "year" \notin DOMAIN last.resp.v
    /\ InputYear = JNum(2023) => Get(last.resp, "year") = JNum(2023)

\* the part of C19 about input years that are integers or strings
C19_IntegerYearPart ==
  (WasBuilt /\ InputYear.t # "frac") =>
    /\ "year" \in DOMAIN last.resp.v => ValidYear(last.resp.v.year, now)
    /\ InputYear \in {JNum(1850), JNum(2099)} => "year" \notin DOMAIN last.resp.v
    /\ InputYear = JNum(2023) => Get(last.resp, "year") = JNum(2023)

\* C20: the record a builder returns has no field whose value is null,
\* undefined or an empty array.
C20_NoEmptyPlaceholders ==
  WasBuilt =>
    \A f \in DOMAIN last.resp.v :
      /\ last.resp.v[f].t \notin {"null", "undefined"}
      /\ last.resp.v[f] # JArr(<<>>)

\* a record was built from a release without quality, details whose imdbId is
\* null and external metadata whose genres hold no valid genre: it has none
\* of the fields year, genres, imdbId and releaseInfo
C20_Witness ==
  /\ WasBuilt
  /\ last.kind = "scraped"
  /\ Get(last.args.movieDetails, "imdbId") = JNull
  /\ Get(last.args.externalMeta, "genres") \in
       {JArr(<<>>), JArr(<<JStr(<<" ">>), JNull>>)}
  /\ DOMAIN last.resp.v = {"id", "type", "name"}

EndsWith(s, p) == Len(s) >= Len(p) /\ SubSeq(s, Len(s) - Len(p) + 1, Len(s)) = p

\* the file's name ends, in any letter case, with "." and a supported
\* video extension
HasVideoExtension(file) ==
  \E e \in SupportedVideoExtensions :
    EndsWith(ToLowerCase(Get(file, "name").v), <<".">> \o e)

\* the files of a TorrentInfo, none when it has no file list
FilesOf(magnetInfo) ==
  IF Get(magnetInfo, "files").t = "arr" THEN Get(magnetInfo, "files").v ELSE <<>>

VideoFilesOf(magnetInfo) == SelectSeq(FilesOf(magnetInfo), HasVideoExtension)

\* C21: a torrent whose file list holds k >= 1 files with a supported video
\* extension yields exactly k descriptors, one per such file in file order,
\* all with the torrent's infoHash; a torrent with an empty file list or
\* without such a file yields exactly one descriptor.
C21_TorrentProjection ==
  last.kind = "projected" =>
    /\ Len(last.resp.v) =
         IF VideoFilesOf(last.args) = <<>> THEN 1 ELSE Len(VideoFilesOf(last.args))
    /\ \A j \in DOMAIN last.resp.v :
         /\ Get(last.resp.v[j], "infoHash") = Get(last.args, "hash")
         /\ VideoFilesOf(last.args) # <<>> =>
              /\ Get(last.resp.v[j], "filename")
                   = Get(VideoFilesOf(last.args)[j], "name")
              /\ Get(last.resp.v[j], "fileIdx")
                   = Get(VideoFilesOf(last.args)[j], "index")

\* a torrent with three files, two of them videos, gave two descriptors
C21_Witness ==
  /\ last.kind = "projected"
  /\ Len(FilesOf(last.args)) = 3
  /\ Len(VideoFilesOf(last.args)) = 2
  /\ ~HasVideoExtension(FilesOf(last.args)[2])
  /\ Len(last.resp.v) = 2
  /\ Get(last.resp.v[2], "fileIdx") = JNum(2)

\* a torrent whose files hold no video gave one descriptor
C21_SingleWitness ==
  /\ last.kind = "projected"
  /\ Len(FilesOf(last.args)) = 2
  /\ VideoFilesOf(last.args) = <<>>
  /\ Len(last.resp.v) = 1

\* what identifies a descriptor: the infoHash of a torrent stream, the
\* externalUrl of a download stream
StreamMark(stream) ==
  IF "infoHash" \in DOMAIN stream.v THEN stream.v.infoHash ELSE stream.v.externalUrl

\* the marks of the streams of a magnet link whose torrent metadata was
\* obtained: one per video file of its torrent
RECURSIVE MarksOfMagnets(_, _, _)
MarksOfMagnets(magnetLinks, failed, i) ==
  IF i > Len(magnetLinks) THEN <<>>
  ELSE (IF i \in failed THEN <<>>
        ELSE [k \in 1..(IF Get(magnetLinks[i], "url").v = MagnetUrl2 THEN 2 ELSE 1) |->
                JStr(<<"h">> \o SubstringFrom(Get(magnetLinks[i], "url").v, 7))])
       \o MarksOfMagnets(magnetLinks, failed, i + 1)

\* C22: whatever inspections fail and in whatever order they settle, the
\* request's stream list is the streams of the succeeding magnet links in
\* download-link order followed by the download descriptors of the other
\* links; a failed inspection contributes no stream.
C22_FailuresTolerated ==
  last.kind = "streams" =>
    [j \in DOMAIN last.resp.v |-> StreamMark(last.resp.v[j])]
      = MarksOfMagnets(MagnetLinksOf(last.args), last.fail, 1)
          \o [j \in 1..Len(SelectSeq(LinksOf(last.args), LAMBDA l : ~IsMagnet(l))) |->
                Get(SelectSeq(LinksOf(last.args), LAMBDA l : ~IsMagnet(l))[j], "url")]

\* a download link and two magnet links: the second inspection settled
\* first and succeeded, the first one then failed
C22_Witness ==
  /\ last.kind = "streams"
  /\ Len(LinksOf(last.args)) = 3
  /\ ~IsMagnet(LinksOf(last.args)[1])
  /\ ~last.inOrder
  /\ last.settled = 1
  /\ last.fail = {1}
  /\ Len(last.resp.v) >= 2

\* the fresh fetches in a sequence of collaborator calls: Release Lister
\* queries and metadata-provider calls
FreshFetches(calls) ==
  {i \in DOMAIN calls : calls[i] \in {"performQuery", "getMovieMetadata"}}

\* C23, as claimed: meta requests for one id that arrive within the cache
\* TTL of the first cause at most one fresh fetch in total.  Here: when the
\* last request, for the site id, made a Release Lister query and the clock
\* has not moved since the first request, a further request for that id
\* makes no Release Lister query, whatever the collaborators return.
C23_OneFreshFetch ==
  (/\ last.kind = "meta"
   /\ last.args = SiteArgs
   /\ "performQuery" \in Range(last.calls)
   /\ advances = 0)
    => \A a \in ScrapeAnswers :
         "performQuery" \notin Range(MetaOutcome(SiteArgs, Env({}, a, JNull)).st.calls)

\* the part of C23 that holds: after a request that returned a meta, a
\* further request inside the TTL is served from the cache without any call
\* to the Release Lister or the metadata provider
C23_AfterSuccessPart ==
  (/\ last.kind = "meta"
   /\ last.args = SiteArgs
   /\ last.ok
   /\ Truthy(Get(last.resp, "meta"))
   /\ last.fail = {}
   /\ advances = 0)
    => \A a \in ScrapeAnswers :
         FreshFetches(MetaOutcome(SiteArgs, Env({}, a, JNull)).st.calls) = {}

(************** two meta requests for one site id in flight ****************)
\* MetaHandler.handle for IdCC run twice at once: a request yields to the
\* other at an `await`, and the steps below are the stretches between the
\* awaits that reach the cache or the database (collaborator answers and
\* the metadata builder touch neither, so they are taken with the access
\* that follows them). last.pc holds each request's position, last.result
\* what _routeMetaRequest returned to it, last.resp its response,
\* last.args the state the requests started from and the collaborators'
\* answers, last.calls the accesses in the order they happened.
Requests == {1, 2}

\* the persisted state the requests start from: nothing, or what an earlier
\* stream request for the same id left behind
EmptyStore ==
  [cache |-> NoRows, movies |-> <<>>, torrents |-> NoRows, calls |-> NoCalls]
SeedStores ==
  {EmptyStore}
  \cup {[StreamHandler_handle(SiteArgs, Env({}, a, Torrent1), EmptyStore,
                              StartClock).st EXCEPT !.calls = NoCalls] :
          a \in ScrapeAnswers}

InitConcurrent ==
  /\ now = StartClock
  /\ advances = 0
  /\ \E seed \in SeedStores, a \in ScrapeAnswers :
       /\ cache = seed.cache
       /\ movies = seed.movies
       /\ torrents = seed.torrents
       /\ last = [kind |-> "resolving",
                  args |-> [seed |-> seed, env |-> Env({}, a, JNull)],
                  fail |-> {}, ok |-> TRUE,
                  pc |-> [p \in Requests |-> "handle"],
                  result |-> [p \in Requests |-> JUndef],
                  resp |-> [p \in Requests |-> JUndef],
                  calls |-> NoCalls]

\* request p moves to position pc with the outcome out of its step
Proceed(p, pc, out, result, resp) ==
  /\ cache' = out.st.cache
  /\ movies' = out.st.movies
  /\ torrents' = out.st.torrents
  /\ last' = [last EXCEPT !.pc[p] = pc, !.result[p] = result,
                          !.resp[p] = resp,
                          !.calls = @ \o <<<<p, out.st.calls>>>>,
                          !.kind = IF \A q \in Requests \ {p} :
                                        last.pc[q] = "done" /\ pc = "done"
                                     THEN "resolved" ELSE "resolving"]
  /\ UNCHANGED <<now, advances>>

\* MetaHandler.handle up to `await this._getCachedMeta(...)`
HandleStep(p) ==
  /\ last.pc[p] = "handle"
  /\ \E cachedResult \in
        {CacheService_get(MetaKey(sanitizeId(JStr(IdCC)).v), last.args.env,
                          Store, now)} :
       IF Truthy(cachedResult.v)
         THEN Proceed(p, "done", cachedResult, JUndef, cachedResult.v)
         ELSE Proceed(p, "getSavedMovie", cachedResult, JUndef, JUndef)

\* _handleCineCalidadId up to `await this._getSavedMovie(id, ...)`
GetSavedMovieStep(p) ==
  /\ last.pc[p] = "getSavedMovie"
  /\ \E savedMovie \in {_getSavedMovie(IdCC, last.args.env, Store)} :
       IF Truthy(savedMovie.v)
         THEN Proceed(p, "cacheMeta", savedMovie, savedMovie.v, JUndef)
         ELSE Proceed(p, "getCatalogMovie", savedMovie, JUndef, JUndef)

\* _handleCineCalidadId up to `await this._getCatalogMovie(movieId, ...)`
GetCatalogMovieStep(p) ==
  /\ last.pc[p] = "getCatalogMovie"
  /\ \E catalogMovie \in
        {_getCatalogMovie(SubstringFrom(IdCC, 3), IdCC, last.args.env, Store,
                          now)} :
       IF Truthy(catalogMovie.v)
         THEN Proceed(p, "cacheMeta", catalogMovie, catalogMovie.v, JUndef)
         ELSE Proceed(p, "scrapeMovie", catalogMovie, JUndef, JUndef)

\* _handleCineCalidadId up to `await this._scrapeMovie(movieId, id, ...)`;
\* an error or no movie ends the request with {meta: null}
ScrapeMovieStep(p) ==
  /\ last.pc[p] = "scrapeMovie"
  /\ \E scrapedMovie \in
        {_scrapeMovie(SubstringFrom(IdCC, 3), IdCC, last.args.env, Store,
                      now)} :
       IF scrapedMovie.ok /\ Truthy(scrapedMovie.v)
         THEN Proceed(p, "cacheMeta", scrapedMovie, scrapedMovie.v, JUndef)
         ELSE Proceed(p, "done", scrapedMovie, JUndef, NullMeta)

\* MetaHandler.handle from `const meta = result.meta || result` to its
\* return
CacheMetaStep(p) ==
  /\ last.pc[p] = "cacheMeta"
  /\ \E response \in
        {JObj([meta |-> Or(Get(last.result[p], "meta"), last.result[p])])} :
       Proceed(p, "done",
               Returned(CacheService_set(MetaKey(sanitizeId(JStr(IdCC)).v),
                                         response, last.args.env, Store, now),
                        response),
               last.result[p], response)

NextConcurrent ==
  \E p \in Requests :
    \/ HandleStep(p)
    \/ GetSavedMovieStep(p)
    \/ GetCatalogMovieStep(p)
    \/ ScrapeMovieStep(p)
    \/ CacheMetaStep(p)

SpecConcurrent == InitConcurrent /\ [][NextConcurrent]_vars

\* one resolution of the same request, alone, from the state the two
\* requests started from and against the same collaborator answers
SingleResolution ==
  MetaHandler_handle(SiteArgs, last.args.env, last.args.seed, StartClock)

\* a persisted record without its lastUpdated
ApartFromLastUpdated(data) ==
  IF data.t # "obj" THEN data
  ELSE JObj([k \in DOMAIN data.v \ {"lastUpdated"} |-> data.v[k]])

\* C24: when two meta requests for the same uncached cc_ id run
\* concurrently against collaborators returning the same data to both, both
\* return the same meta and, once both have completed, the persisted record
\* (apart from lastUpdated) and the cache entry of the id are what a single
\* resolution would have written, whatever the interleaving of their steps.
C24_ConcurrentConverge ==
  last.kind = "resolved" =>
    /\ last.resp[1] = last.resp[2]
    /\ ApartFromLastUpdated(getMovie(movies, IdCC))
         = ApartFromLastUpdated(getMovie(SingleResolution.st.movies, IdCC))
    /\ getCache(cache, MetaKey(IdCC), now)
         = getCache(SingleResolution.st.cache, MetaKey(IdCC), now)

\* the part of C24 that holds: the persisted record converges
C24_RecordPart ==
  last.kind = "resolved" =>
    ApartFromLastUpdated(getMovie(movies, IdCC))
      = ApartFromLastUpdated(getMovie(SingleResolution.st.movies, IdCC))

(************************ the addon's life cycle ***************************)
\* last.phase is "constructed", "initialized" or "shutdown"; last.timers the
\* interval timers that are active, each named after its owner;
\* last.fired the timer whose callback ran last.
AddonTimer == "addon"
ParserTimer == "torrentParser"
HandlerNames == {"meta", "catalog", "stream"}

\* CineCalidadAddon's own fields as its constructor leaves them:
\* the handlers live in the Map `handlers`, no field holds one
AddonFields ==
  JObj([container |-> JObj([x \in {} |-> JNull]),
        builder |-> JNull,
        handlers |-> JObj([h \in HandlerNames |->
                             JObj([cacheService |-> JStr(h)])]),
        cleanupInterval |-> JNull])

InitLifecycle ==
  /\ now = StartClock
  /\ advances = 0
  /\ cache = NoRows
  /\ movies = <<>>
  /\ torrents = NoRows
  /\ last = [kind |-> "none", args |-> JNull, fail |-> {}, ok |-> TRUE,
             resp |-> JNull, calls |-> NoCalls, phase |-> "constructed",
             timers |-> {}, fired |-> "none"]

\* CineCalidadAddon.initialize(): the container creates the torrent parser
\* (its constructor starts an interval), every handler creates its own
\* CacheService (its constructor starts an interval), _setupCleanup starts
\* the addon's interval
Initialize ==
  /\ last.phase = "constructed"
  /\ last' = [last EXCEPT !.phase = "initialized",
                          !.timers = {ParserTimer} \cup HandlerNames
                                       \cup {AddonTimer}]
  /\ UNCHANGED <<now, advances, cache, movies, torrents>>

\* a meta request served by the initialized addon
ServeMeta(env) ==
  /\ last.phase # "constructed"
  /\ \E out \in {MetaHandler_handle(SiteArgs, env, Store, now)} :
       /\ cache' = out.st.cache
       /\ movies' = out.st.movies
       /\ torrents' = out.st.torrents
       /\ last' = [last EXCEPT !.kind = "meta", !.args = SiteArgs,
                               !.ok = out.ok, !.resp = out.v,
                               !.calls = out.st.calls]
  /\ UNCHANGED <<now, advances>>

\* the callback of an active interval timer runs: database.cleanup() for
\* the addon's, database.clearExpiredCache() for a CacheService's; the
\* torrent parser's cleans a map of its own
TimerFires(timer) ==
  /\ timer \in last.timers
  /\ cache' = IF timer = ParserTimer THEN cache
              ELSE clearExpiredCache(cache, now)
  /\ movies' = IF timer = AddonTimer THEN cleanupMovies(movies, now)
               ELSE movies
  /\ last' = [last EXCEPT !.fired = timer]
  /\ UNCHANGED <<now, advances, torrents>>

\* the handlers whose CacheService CineCalidadAddon.shutdown() shuts down:
\* it looks for them in this.catalogHandler and this.streamHandler
ShutDownHandlers(addon) ==
  (IF Truthy(Get(Get(addon, "catalogHandler"), "cacheService"))
     THEN {"catalog"} ELSE {})
  \cup (IF Truthy(Get(Get(addon, "streamHandler"), "cacheService"))
          THEN {"stream"} ELSE {})

\* CineCalidadAddon.shutdown()
Shutdown ==
  /\ last.phase = "initialized"
  /\ last' = [last EXCEPT !.phase = "shutdown",
                          !.timers = @ \ ({AddonTimer}
                                            \cup ShutDownHandlers(AddonFields)
                                            \cup {ParserTimer})]
  /\ UNCHANGED <<now, advances, cache, movies, torrents>>

NextLifecycle ==
  \/ Initialize
  \/ \E a \in ScrapeAnswers : ServeMeta(Env({}, a, JNull))
  \/ AdvanceClock
  \/ \E timer \in {AddonTimer, ParserTimer} \cup HandlerNames :
       TimerFires(timer)
  \/ Shutdown

SpecLifecycle == InitLifecycle /\ [][NextLifecycle]_vars

\* C25: after CineCalidadAddon.shutdown() has completed on an initialized
\* addon no periodic timer created during initialization is active: the
\* addon's cleanup interval, the CacheService sweep interval of the meta,
\* the catalog and the stream handler, and the torrent parser's interval
\* are all cancelled.
C25_ShutdownCancelsTimers ==
  last.phase = "shutdown" => last.timers = {}

\* the part of C25 that holds: the addon's own interval and the torrent
\* parser's are cancelled
C25_OwnTimersPart ==
  last.phase = "shutdown" =>
    last.timers \cap {AddonTimer, ParserTimer} = {}

\* a CacheService sweep that ran after shutdown() and removed an entry
C25_SweepAfterShutdown ==
  /\ last.phase = "shutdown"
  /\ last.fired \in HandlerNames
  /\ cache = NoRows
  /\ last.kind = "meta" /\ Truthy(Get(last.resp, "meta"))

\* a download link with the magnet URI url
MagnetLinkTo(url) ==
  JObj([name |-> JStr(<<"7", "2", "0", "P">>), url |-> JStr(url)])

\* C26: once processLink has obtained a TorrentInfo for a magnet URI and
\* saved it, every later processLink for the same URI, at any later time,
\* whatever the inspector would answer, makes no call to the torrent
\* inspector and builds its streams from the persisted value.
C26_TorrentFetchedOnce ==
  \A url \in DOMAIN torrents :
    \A x \in {JNull, Torrent1}, f \in {{}, {"getTorrentInfo"}} :
      \A movieData \in {JNull, getMovie(movies, IdCC)} :
        LET out == processLink(MagnetLinkTo(url), movieData, IdCC,
                               Env(f, [releases |-> <<>>, details |-> JNull,
                                       ext |-> JNull], x),
                               Store)
        IN /\ "getTorrentInfo" \notin Range(out.st.calls)
           /\ out.streams
                = _createStreamsFromTorrent(torrents[url], movieData, IdCC)
           /\ out.st.torrents = torrents

\* a stream request, after the clock has moved, whose processLink found the
\* persisted TorrentInfo and answered streams without the inspector
C26_Witness ==
  /\ last.kind = "stream"
  /\ advances > 0
  /\ MagnetUrl \in DOMAIN torrents
  /\ "getTorrent" \in Range(last.calls)
  /\ "getTorrentInfo" \notin Range(last.calls)
  /\ Get(last.resp, "streams").t = "arr"
  /\ Len(Get(last.resp, "streams").v) > 1

\* the last request resolved IdCC by catalog scan or live scrape and
\* persisted the record, the record is still there and the cache entry is
\* not: the next request is served by the persisted-record check
ServedByPersistedRecord ==
  /\ last.kind = "meta" /\ last.args = SiteArgs
  /\ "saveMovie" \in Range(last.calls)
  /\ Truthy(Get(last.resp, "meta"))
  /\ Truthy(Get(getMovie(movies, IdCC), "meta"))
  /\ ~Truthy(getCache(cache, MetaKey(IdCC), now))

\* C27: after a cc_ id was resolved by catalog scan or live scrape, a later
\* request for the same id that misses the cache and is served by the
\* persisted-record check returns as `meta` the CanonicalMeta the original
\* resolution returned, not wrapped in a further `meta` object.
C27_PersistedRoundTrip ==
  ServedByPersistedRecord =>
    \A a \in ScrapeAnswers :
      LET out == MetaOutcome(SiteArgs, Env({}, a, JNull))
      IN /\ out.st.calls = <<"getCache", "getMovie", "setCache">>
         /\ Get(out.v, "meta") = Get(last.resp, "meta")

\* what holds instead of C27: the original meta comes back one level down
C27_WrappedPart ==
  ServedByPersistedRecord =>
    \A a \in ScrapeAnswers :
      LET out == MetaOutcome(SiteArgs, Env({}, a, JNull))
      IN /\ out.st.calls = <<"getCache", "getMovie", "setCache">>
         /\ Get(Get(out.v, "meta"), "meta") = Get(last.resp, "meta")

\* what the catalog scan finds for the id fragment of IdCC: a record
\* with a `release` and without a meta, while no record with `meta` is
\* stored under IdCC and the response cache holds nothing for it
PartialRecordFound ==
  /\ ~Truthy(getCache(cache, MetaKey(IdCC), now))
  /\ ~Truthy(Get(getMovie(movies, IdCC), "meta"))
  /\ Truthy(CatalogRow)
  /\ Truthy(Get(CatalogRow, "release"))
  /\ ~Truthy(Get(Get(CatalogRow, "meta"), "meta"))

\* C28: when no record with `meta` is stored under the request id but the
\* catalog scan finds a persisted record with a `release` for the id
\* fragment, the meta request builds the meta from that record, saves under
\* the request id a record that keeps the original release and holds the
\* built meta, returns the built meta, and never calls the Release Lister.
C28_CatalogCompletion ==
  PartialRecordFound =>
    \A a \in ScrapeAnswers :
      LET out == MetaOutcome(SiteArgs, Env({}, a, JNull))
          built == buildFromCatalogData(CatalogRow, IdCC, now)
          saved == getMovie(out.st.movies, IdCC)
      IN /\ built.ok
         /\ out.v = JObj([meta |-> built.v])
         /\ Get(saved, "release") = Get(CatalogRow, "release")
         /\ Get(saved, "meta") = JObj([meta |-> built.v])
         /\ "saveMovie" \in Range(out.st.calls)
         /\ "performQuery" \notin Range(out.st.calls)

\* a meta request that completed the record a stream request had left:
\* no Release Lister call, a meta returned, release and meta both persisted
C28_Witness ==
  /\ last.kind = "meta" /\ last.args = SiteArgs
  /\ "findMovieByOriginalId" \in Range(last.calls)
  /\ "saveMovie" \in Range(last.calls)
  /\ "performQuery" \notin Range(last.calls)
  /\ Truthy(Get(last.resp, "meta"))
  /\ Truthy(Get(getMovie(movies, IdCC), "release"))
  /\ Get(getMovie(movies, IdCC), "meta") = last.resp

(************************* the search phrase of a scrape *******************)
\* s.split(sep): the stretches of s between the occurrences of sep
RECURSIVE SplitFrom(_, _, _)
SplitFrom(s, sep, current) ==
  IF s = <<>> THEN <<current>>
  ELSE IF Head(s) = sep THEN <<current>> \o SplitFrom(Tail(s), sep, <<>>)
  ELSE SplitFrom(Tail(s), sep, Append(current, Head(s)))

Split(s, sep) == SplitFrom(s, sep, <<>>)

\* parts.join(sep)
RECURSIVE Join(_, _)
Join(parts, sep) ==
  IF parts = <<>> THEN <<>>
  ELSE IF Len(parts) = 1 THEN parts[1]
  ELSE parts[1] \o <<sep>> \o Join(Tail(parts), sep)

\* the words of COMMON_SUFFIXES that consist of ASCII letters (the eleventh
\* has letters outside ASCII)
COMMON_SUFFIXES ==
  {<<"o", "n", "l", "i", "n", "e">>,
   <<"d", "e", "s", "c", "a", "r", "g", "a">>,
   <<"d", "e", "s", "c", "a", "r", "g", "a", "r">>,
   <<"g", "r", "a", "t", "i", "s">>,
   <<"h", "d">>,
   <<"f", "u", "l", "l">>,
   <<"l", "a", "t", "i", "n", "o">>,
   <<"d", "u", "a", "l">>,
   <<"s", "u", "b", "t", "i", "t", "u", "l", "a", "d", "o">>,
   <<"s", "p", "a", "n", "i", "s", "h">>}

\* the loop of _extractSearchTitle: the index where the trailing run of
\* common suffixes starts
SuffixStart(parts) ==
  CHOOSE i \in 0..Len(parts) :
    /\ \A j \in (i + 1)..Len(parts) : ToLowerCase(parts[j]) \in COMMON_SUFFIXES
    /\ i > 0 => ToLowerCase(parts[i]) \notin COMMON_SUFFIXES

Max(a, b) == IF a > b THEN a ELSE b

\* MetaHandler._extractSearchTitle(movieId)
_extractSearchTitle(movieId) ==
  LET parts == SelectSeq(Split(movieId, "-"), LAMBDA p : p # <<>>)
      endIndex == IF SuffixStart(parts) = 0
                    THEN Max(1, (Len(parts) * 7) \div 10)
                    ELSE SuffixStart(parts)
  IN Join(SubSeq(parts, 1, Min(endIndex, Len(parts))), " ")

\* id fragments: up to MaxPieces pieces, each a hyphen, a letter or a noise
\* word
FragmentPieces ==
  {<<"-">>, <<"a">>, <<"h", "d">>, <<"f", "u", "l", "l">>}
MaxPieces == 3
RECURSIVE Concat(_)
Concat(pieces) ==
  IF pieces = <<>> THEN <<>> ELSE Head(pieces) \o Concat(Tail(pieces))
Fragments ==
  {Concat(ps) : ps \in UNION {[1..n -> FragmentPieces] : n \in 1..MaxPieces}}

InitSearchTitle ==
  /\ now = StartClock
  /\ advances = 0
  /\ cache = NoRows
  /\ movies = <<>>
  /\ torrents = NoRows
  /\ \E movieId \in Fragments :
       last = [kind |-> "movieId", args |-> movieId, fail |-> {}, ok |-> TRUE,
               resp |-> <<>>, calls |-> NoCalls]

\* _scrapeMovie derives the search phrase of its Release Lister query
ExtractSearchTitle ==
  /\ last.kind = "movieId"
  /\ last' = [last EXCEPT !.kind = "searchTitle",
                          !.resp = _extractSearchTitle(last.args)]
  /\ UNCHANGED <<now, advances, cache, movies, torrents>>

NextSearchTitle == ExtractSearchTitle

SpecSearchTitle == InitSearchTitle /\ [][NextSearchTitle]_vars

\* the tokens of a fragment
TokensOf(movieId) == SelectSeq(Split(movieId, "-"), LAMBDA p : p # <<>>)

\* C29: for every fragment matching [a-z0-9-]+, fragments made only of
\* noise words or only of hyphens included, _extractSearchTitle returns a
\* non-empty string.
C29_NeverEmpty ==
  last.kind = "searchTitle" => last.resp # <<>>

\* the part of C29 that holds: a fragment with at least one token yields a
\* non-empty phrase, and when every token is a noise word the phrase is the
\* first max(1, floor(0.7 * tokenCount)) tokens
C29_TokensPart ==
  (last.kind = "searchTitle" /\ TokensOf(last.args) # <<>>) =>
    /\ last.resp # <<>>
    /\ (\A i \in DOMAIN TokensOf(last.args) :
          TokensOf(last.args)[i] \in COMMON_SUFFIXES)
       => last.resp
            = Join(SubSeq(TokensOf(last.args), 1,
                          Max(1, (Len(TokensOf(last.args)) * 7) \div 10)),
                   " ")

\* a fragment of noise words only, with a non-empty phrase
C29_NoiseOnly ==
  /\ last.kind = "searchTitle"
  /\ Len(TokensOf(last.args)) > 1
  /\ \A i \in DOMAIN TokensOf(last.args) :
       TokensOf(last.args)[i] \in COMMON_SUFFIXES
  /\ last.resp # <<>>

(************************** poster selection *******************************)
\* poster values of the metadata provider and of a release: missing, empty,
\* "N/A", " https://p ", "HTTP:q", "ftp://r", "//s", "http://" and a number
PosterValues ==
  {JUndef, JNull, JStr(<<>>), JStr(<<"N", "/", "A">>),
   JStr(<<" ", "h", "t", "t", "p", "s", ":", "/", "/", "p", " ">>),
   JStr(<<"H", "T", "T", "P", ":", "q">>),
   JStr(<<"f", "t", "p", ":", "/", "/", "r">>),
   JStr(<<"/", "/", "s">>),
   JStr(<<"h", "t", "t", "p", ":", "/", "/">>),
   JNum(5)}

PosterInputs ==
  {BuilderInput(JObj([id |-> JStr(<<"a", "-", "b">>), title |-> JStr(<<"C">>),
                      poster |-> r]),
                JNull, e) :
     r \in PosterValues,
     e \in {JNull, JUndef} \cup {JObj([poster |-> x]) : x \in PosterValues}}

InitPoster ==
  /\ now = StartClock
  /\ advances = 0
  /\ cache = NoRows
  /\ movies = <<>>
  /\ torrents = NoRows
  /\ \E x \in PosterInputs :
       last = [kind |-> "input", args |-> x, fail |-> {}, ok |-> TRUE,
               resp |-> JNull, calls |-> NoCalls]

SpecPoster == InitPoster /\ [][NextBuilder]_vars

\* the poster candidates of the input in order of preference, and the
\* trimmed text of those that pass URL validation
PosterCandidates ==
  <<Get(last.args.externalMeta, "poster"), Get(last.args.release, "poster")>>
ValidPosters ==
  SelectSeq(PosterCandidates, LAMBDA c : c.t = "str" /\ validateUrl(c))

\* C30: in buildFromCatalogData and buildFromScrapedData `poster` is the
\* first of externalMeta.poster, release.poster that passes URL validation,
\* and is absent only when neither passes.
C30_FirstValidPoster ==
  last.kind \in {"catalog", "scraped"} =>
    IF ValidPosters = <<>> THEN Get(last.resp, "poster") = JUndef
    ELSE Get(last.resp, "poster") = JStr(Trim(ValidPosters[1].v))

\* what holds instead of C30: only the first truthy candidate is validated
C30_FirstTruthyPart ==
  last.kind \in {"catalog", "scraped"} =>
    LET chosen == Or(PosterCandidates[1], PosterCandidates[2])
    IN IF chosen.t = "str" /\ validateUrl(chosen)
         THEN Get(last.resp, "poster") = JStr(Trim(chosen.v))
         ELSE Get(last.resp, "poster") = JUndef

\* a meta whose poster is the release's, the provider naming none
C30_ReleasePosterUsed ==
  /\ last.kind = "scraped"
  /\ ~Truthy(PosterCandidates[1])
  /\ Truthy(Get(last.resp, "poster"))
  /\ Get(last.resp, "poster") = JStr(Trim(PosterCandidates[2].v))

(********************* descriptions and people lists ***********************)
\* description.replace(/\s+/g, " ")
CollapseWhitespace(s) ==
  LET kept == SelectSeq([i \in 1..Len(s) |-> i],
                        LAMBDA i : \/ s[i] \notin WhiteSpace
                                   \/ i = 1
                                   \/ s[i - 1] \notin WhiteSpace)
  IN [k \in 1..Len(kept) |->
        IF s[kept[k]] \in WhiteSpace THEN " " ELSE s[kept[k]]]

\* the length a description is cut to, and the length it must exceed
MaxDescriptionLen == 1000
DescriptionThreshold == 10

\* MetadataBuilder._cleanDescription(description)
_cleanDescription(description) ==
  IF ~Truthy(description) \/ description.t # "str" THEN JUndef
  ELSE LET cleaned == Substring0(CollapseWhitespace(Trim(description.v)),
                                 MaxDescriptionLen)
       IN IF Len(cleaned) > DescriptionThreshold THEN JStr(cleaned)
          ELSE JUndef

\* `String(x)` of a string, a number, null or undefined
StringOf(x) ==
  CASE x.t = "str" -> x.v
    [] x.t = "num" -> NumberToString(x.v)
    [] x.t = "null" -> <<"n", "u", "l", "l">>
    [] OTHER -> <<"u", "n", "d", "e", "f", "i", "n", "e", "d">>

\* "Película disponible en calidad "
TechnicalInfoPrefix ==
  <<"P", "e", "l", "í", "c", "u", "l", "a", " ", "d", "i", "s", "p", "o", "n",
    "i", "b", "l", "e", " ", "e", "n", " ", "c", "a", "l", "i", "d", "a", "d",
    " ">>

\* MetadataBuilder._buildDescription(externalMeta, release); the size of a
\* release is always null (parseReleases), so the size suffix never appears
_buildDescription(externalMeta, release) ==
  IF Truthy(Get(externalMeta, "description"))
    THEN _cleanDescription(Get(externalMeta, "description"))
  ELSE IF Truthy(Get(release, "quality"))
    THEN JStr(TechnicalInfoPrefix \o StringOf(Get(release, "quality")))
  ELSE JUndef

\* the caps of the people lists
MaxCast == 8
MaxDirectors == 3

\* MetadataBuilder._normalizeCast(cast)
_normalizeCast(cast) ==
  IF ~Truthy(cast) THEN JUndef
  ELSE LET normalized ==
             IF cast.t = "arr" THEN cast.v
             ELSE IF cast.t = "str"
               THEN [i \in DOMAIN Split(cast.v, ",") |->
                       JStr(Split(cast.v, ",")[i])]
             ELSE <<>>
           trimmed == [i \in DOMAIN normalized |->
                         JStr(Trim(StringOf(normalized[i])))]
           validCast == Substring0(SelectSeq(trimmed, LAMBDA c : Len(c.v) > 0),
                                   MaxCast)
       IN IF Len(validCast) > 0 THEN JArr(validCast) ELSE JUndef

\* MetadataBuilder._normalizeDirector(director)
_normalizeDirector(director) ==
  IF ~Truthy(director) THEN JUndef
  ELSE IF director.t = "arr"
    THEN LET strings == SelectSeq(director.v,
                                  LAMBDA d : Truthy(d) /\ d.t = "str")
             validDirectors ==
               Substring0([i \in DOMAIN strings |-> JStr(Trim(strings[i].v))],
                          MaxDirectors)
         IN IF Len(validDirectors) > 0 THEN JArr(validDirectors) ELSE JUndef
  ELSE IF director.t = "str"
    THEN IF Len(Trim(director.v)) > 0 THEN JArr(<<JStr(Trim(director.v))>>)
         ELSE JUndef
  ELSE JUndef

\* MetadataBuilder._normalizeWriter(writer)
_normalizeWriter(writer) == _normalizeDirector(writer)

\* descriptions: runs of up to MaxRun letters, bare or padded and with a
\* whitespace run inside, texts around the cut at MaxDescriptionLen, and
\* values that are no text
MaxRun == 11
DescriptionTexts ==
  {lead \o Repeat("a", n) \o mid \o Repeat("b", m) \o lead :
     n \in 0..MaxRun, m \in {0, 1}, lead \in {<<>>, <<" ">>},
     mid \in {<<>>, <<" ", "\t", " ">>}}
  \cup {Repeat("a", MaxDescriptionLen - 3) \o <<" ", " ">> \o Repeat("b", m) :
          m \in 0..4}
DescriptionValues ==
  {JUndef, JNull, JNum(5)} \cup {JStr(x) : x \in DescriptionTexts}

\* people: arrays of up to MaxPeople entries, arrays longer than the caps
\* and comma-separated strings
MaxPeople == 3
PersonValues ==
  {JStr(<<"A">>), JStr(<<" ", "B", " ">>), JStr(<<" ">>), JStr(<<>>), JNull}
NumberedPeople(n) == [i \in 1..n |-> JStr(NatToString(i))]
PeopleValues ==
  {JUndef, JNull, JStr(<<>>), JStr(<<" ">>), JStr(<<"A">>),
   JStr(<<" ", "A", " ", ",", "B", ",", ",", " ", ",", "C", " ">>),
   JStr(Join([i \in 1..(MaxCast + 1) |-> NatToString(i)], ","))}
  \cup {JArr(a) : a \in UNION {[1..n -> PersonValues] : n \in 0..MaxPeople}}
  \cup {JArr(NumberedPeople(n)) :
          n \in {MaxDirectors + 1, MaxCast, MaxCast + 1}}

FieldsInputs ==
  {[field |-> "description", externalMeta |-> e,
    release |-> JObj([quality |-> q])] :
     e \in {JNull} \cup {JObj([description |-> d]) : d \in DescriptionValues},
     q \in {JNull, JStr(<<"H", "D">>)}}
  \cup {[field |-> "people", externalMeta |-> JObj([people |-> v]),
         release |-> JNull] : v \in PeopleValues}

InitFields ==
  /\ now = StartClock
  /\ advances = 0
  /\ cache = NoRows
  /\ movies = <<>>
  /\ torrents = NoRows
  /\ \E x \in FieldsInputs :
       last = [kind |-> "input", args |-> x, fail |-> {}, ok |-> TRUE,
               resp |-> JNull, calls |-> NoCalls]

\* the builders' `description: this._buildDescription(externalMeta, release)`
BuildDescription ==
  /\ last.kind = "input" /\ last.args.field = "description"
  /\ last' = [last EXCEPT !.kind = "description",
                          !.resp = _buildDescription(last.args.externalMeta,
                                                     last.args.release)]
  /\ UNCHANGED <<now, advances, cache, movies, torrents>>

\* the builders' cast, director and writer fields
NormalizePeople(field) ==
  /\ last.kind = "input" /\ last.args.field = "people"
  /\ last' = [last EXCEPT
                !.kind = field,
                !.resp = LET v == Get(last.args.externalMeta, "people")
                         IN CASE field = "cast" -> _normalizeCast(v)
                              [] field = "director" -> _normalizeDirector(v)
                              [] OTHER -> _normalizeWriter(v)]
  /\ UNCHANGED <<now, advances, cache, movies, torrents>>

NextFields ==
  \/ BuildDescription
  \/ \E field \in {"cast", "director", "writer"} : NormalizePeople(field)

SpecFields == InitFields /\ [][NextFields]_vars

\* the external description of the input, cleaned: trimmed, whitespace runs
\* collapsed, cut to 1000 characters
CleanedDescription ==
  Substring0(CollapseWhitespace(Trim(
    Get(last.args.externalMeta, "description").v)), MaxDescriptionLen)
HasExternalDescription ==
  /\ last.kind = "description"
  /\ Get(last.args.externalMeta, "description").t = "str"
  /\ Truthy(Get(last.args.externalMeta, "description"))

\* C31: an external description is retained, cleaned, exactly when the
\* cleaned text has at least 10 characters, and discarded only when it has
\* fewer than 10.
C31_DescriptionLengthRule ==
  HasExternalDescription =>
    IF Len(CleanedDescription) >= 10
      THEN last.resp = JStr(CleanedDescription)
      ELSE last.resp = JUndef

\* what holds instead of C31: retained exactly when longer than 10
C31_LongerThanTenPart ==
  HasExternalDescription =>
    IF Len(CleanedDescription) > 10
      THEN last.resp = JStr(CleanedDescription)
      ELSE last.resp = JUndef

\* a description cut to 1000 characters and retained
C31_Truncated ==
  /\ HasExternalDescription
  /\ Len(Get(last.args.externalMeta, "description").v) > MaxDescriptionLen
  /\ last.resp.t = "str" /\ Len(last.resp.v) = MaxDescriptionLen

\* the people value of the input when it is a string or an array of strings,
\* its entries, and the list the rule of C32 asks for under a cap
PeopleInput == Get(last.args.externalMeta, "people")
IsPeopleText ==
  \/ PeopleInput.t = "str" /\ PeopleInput.v # <<>>
  \/ /\ PeopleInput.t = "arr"
     /\ \A i \in DOMAIN PeopleInput.v : PeopleInput.v[i].t = "str"
PeopleEntries ==
  IF PeopleInput.t = "arr" THEN [i \in DOMAIN PeopleInput.v |-> PeopleInput.v[i].v]
  ELSE Split(PeopleInput.v, ",")
ExpectedPeople(cap) ==
  LET trimmed == [i \in DOMAIN PeopleEntries |-> JStr(Trim(PeopleEntries[i]))]
  IN Substring0(SelectSeq(trimmed, LAMBDA e : e.v # <<>>), cap)
PeopleRule(cap) ==
  IF ExpectedPeople(cap) = <<>> THEN last.resp = JUndef
  ELSE last.resp = JArr(ExpectedPeople(cap))

\* C32: for each of cast, director and writer, given an array or a
\* comma-separated string, the emitted list is the trimmed entries without
\* the empty ones, in input order, capped at 8 (cast) or 3 (director,
\* writer), and the field is absent when the list is empty.
C32_PeopleLists ==
  (last.kind \in {"cast", "director", "writer"} /\ IsPeopleText) =>
    PeopleRule(IF last.kind = "cast" THEN 8 ELSE 3)

\* the part of C32 that holds: the cast list
C32_CastPart ==
  (last.kind = "cast" /\ IsPeopleText) => PeopleRule(8)

\* a cast list cut to 8 entries and one split from a comma-separated string
C32_CastCapped ==
  /\ last.kind = "cast"
  /\ PeopleInput.t = "str"
  /\ Len(PeopleEntries) > 8
  /\ last.resp.t = "arr" /\ Len(last.resp.v) = 8

\* ---------------------------------------------------------------------
\* Release Lister: the page loop of performQuery
\* ---------------------------------------------------------------------

maxLatestPageLimit == 3
maxSearchPageLimit == 6

\* the number of listing pages performQuery may request for a query
maxPages(query) ==
  IF query.isSearch THEN maxSearchPageLimit ELSE maxLatestPageLimit

\* what a page request comes to: requestWithRetry throws, or the page is
\* parsed into a number of releases and shows a pagination indicator or not
PageOutcomes ==
  {[ok |-> FALSE, releases |-> 0, hasMorePages |-> FALSE]} \cup
  {[ok |-> TRUE, releases |-> n, hasMorePages |-> m] :
     n \in 0..1, m \in BOOLEAN}

InitPages ==
  /\ now = StartClock
  /\ advances = 0
  /\ cache = NoRows
  /\ movies = <<>>
  /\ torrents = NoRows
  /\ \E isSearch \in BOOLEAN :
       last = [kind |-> "query", args |-> [isSearch |-> isSearch],
               page |-> 1, pending |-> FALSE, requested |-> <<>>,
               outcomes |-> <<>>, resp |-> 0]

\* the head of one loop iteration: the request for the current page
RequestPage ==
  /\ last.kind = "query"
  /\ ~last.pending
  /\ last.page <= maxPages(last.args)
  /\ last' = [last EXCEPT !.pending = TRUE,
                          !.requested = Append(@, last.page)]
  /\ UNCHANGED <<now, advances, cache, movies, torrents>>

\* the loop moves to the next page, or ends after the last one
NextPage(l) ==
  [l EXCEPT !.page = @ + 1,
            !.kind = IF l.page + 1 > maxPages(l.args) THEN "done" ELSE "query"]

\* the page arrives: its releases are collected, and the loop stops when the
\* page shows no pagination indicator or a search page has no release
PageFetched(o) ==
  /\ last.kind = "query"
  /\ last.pending
  /\ o.ok
  /\ LET l == [last EXCEPT !.pending = FALSE,
                           !.outcomes = Append(@, o),
                           !.resp = @ + o.releases]
     IN last' = IF ~o.hasMorePages THEN [l EXCEPT !.kind = "done"]
                ELSE IF o.releases < 1 /\ last.args.isSearch
                  THEN [l EXCEPT !.kind = "done"]
                ELSE NextPage(l)
  /\ UNCHANGED <<now, advances, cache, movies, torrents>>

\* the request fails after its retries: the loop stops on the first page
\* and goes on to the next page otherwise
PageFailed(o) ==
  /\ last.kind = "query"
  /\ last.pending
  /\ ~o.ok
  /\ LET l == [last EXCEPT !.pending = FALSE, !.outcomes = Append(@, o)]
     IN last' = IF last.page = 1 THEN [l EXCEPT !.kind = "done"]
                ELSE NextPage(l)
  /\ UNCHANGED <<now, advances, cache, movies, torrents>>

NextPages ==
  \/ RequestPage
  \/ \E o \in PageOutcomes : PageFetched(o)
  \/ \E o \in PageOutcomes : PageFailed(o)

SpecPages == InitPages /\ [][NextPages]_vars

\* pages are requested one at a time, in increasing order from 1, and at
\* most maxPages of them
SequentialPages ==
  /\ last.requested = [i \in 1..Len(last.requested) |-> i]
  /\ Len(last.requested) <= maxPages(last.args)
  /\ Len(last.requested) <= Len(last.outcomes) + 1

\* the page arrived, showed a pagination indicator and, for a search, held
\* at least one release
PageAllowsNext(o) ==
  /\ o.ok
  /\ o.hasMorePages
  /\ last.args.isSearch => o.releases >= 1

\* C33: performQuery requests listing pages one at a time in increasing
\* order, at most maxPages of them, and requests page N+1 only after page N
\* has been fetched successfully and its content showed a pagination
\* indicator (and, for searches, at least one result).
C33_SequentialPagination ==
  /\ SequentialPages
  /\ \A n \in 1..Len(last.requested) - 1 : PageAllowsNext(last.outcomes[n])

\* the part of C33 that holds: page N+1 follows a page N that allowed it or,
\* from the second page on, a page N whose request failed
C33_FailedPageSkippedPart ==
  /\ SequentialPages
  /\ \A n \in 1..Len(last.requested) - 1 :
       \/ PageAllowsNext(last.outcomes[n])
       \/ n > 1 /\ ~last.outcomes[n].ok

\* a third page requested after the request for the second one failed
C33_AfterFailedPage ==
  /\ Len(last.requested) = 3
  /\ ~last.outcomes[2].ok

\* ---------------------------------------------------------------------
\* Release Lister: the releases of a listing page
\* ---------------------------------------------------------------------

siteLink ==
  <<"h", "t", "t", "p", "s", ":", "/", "/", "w", "w", "w", ".", "c", "i",
  "n", "e", "c", "a", "l", "i", "d", "a", "d", ".", "r", "s">>

\* CineCalidadService.getAbsoluteUrl(url)
getAbsoluteUrl(url) ==
  IF url = <<>> THEN <<>>
  ELSE IF StartsWith(Trim(url), <<"h", "t", "t", "p">>) THEN Trim(url)
  ELSE siteLink \o (IF StartsWith(Trim(url), <<"/">>) THEN Trim(url)
                    ELSE <<"/">> \o Trim(url))

\* CineCalidadService.extractMovieId(url)
extractMovieId(url) ==
  LET parts == Split(url, "/")
      beforeLast == IF Len(parts) >= 2 THEN parts[Len(parts) - 1] ELSE <<>>
  IN IF beforeLast # <<>> THEN beforeLast
     ELSE IF parts[Len(parts)] # <<>> THEN parts[Len(parts)]
     ELSE <<"u", "n", "k", "n", "o", "w", "n">>

\* the release of a row and its 4K variant: the fields id, title,
\* originalTitle, link, detailsLink, category, quality, size and imdbId;
\* year and poster are read from the row alone and are not part of this model
RowRelease(movieId, title, link) ==
  JObj([id |-> JStr(movieId),
        title |-> JStr(title),
        originalTitle |-> JStr(title),
        link |-> JStr(link),
        detailsLink |-> JStr(link),
        category |-> JStr(MovieType),
        quality |-> JStr(<<"1", "0", "8", "0", "p">>),
        size |-> JNull,
        imdbId |-> JNull])
RowRelease4k(movieId, title, link) ==
  JObj([id |-> JStr(movieId \o <<"_", "4", "k">>),
        title |-> JStr(title \o <<" ", "(", "4", "K", ")">>),
        originalTitle |-> JStr(title),
        link |-> JStr(link \o <<"?", "t", "y", "p", "e", "=", "4", "k">>),
        detailsLink |-> JStr(link),
        category |-> JStr(MovieType),
        quality |-> JStr(<<"2", "1", "6", "0", "p">>),
        size |-> JNull,
        imdbId |-> JNull])

\* CineCalidadService.parseReleases(html, query) for a query without search
\* text; a row of the page is [series, title, href, fourK]: whether it is
\* marked as a series, its title, the href of its link and whether it has a
\* 4K link
RECURSIVE parseReleases(_)
parseReleases(rows) ==
  IF rows = <<>> THEN <<>>
  ELSE LET row == Head(rows)
           title == Trim(row.title)
           link == getAbsoluteUrl(row.href)
           movieId == extractMovieId(link)
       IN (IF row.series \/ title = <<>> \/ row.href = <<>> THEN <<>>
           ELSE IF row.fourK
             THEN <<RowRelease(movieId, title, link),
                    RowRelease4k(movieId, title, link)>>
           ELSE <<RowRelease(movieId, title, link)>>)
          \o parseReleases(Tail(rows))

\* the rows of a listing page: links to movie pages, relative to the site or
\* absolute, under directory names matching [a-z0-9-]+
MoviePageLinks ==
  {<<"/">> \o slug \o <<"/">> : slug \in Fragments}
    \cup {siteLink \o <<"/">> \o slug \o <<"/">> : slug \in Fragments}
PageRows ==
  {[series |-> s, title |-> t, href |-> h, fourK |-> k] :
     s \in BOOLEAN, t \in {<<>>, <<"A">>}, h \in MoviePageLinks,
     k \in BOOLEAN}

InitListing ==
  /\ now = StartClock
  /\ advances = 0
  /\ cache = NoRows
  /\ movies = <<>>
  /\ torrents = NoRows
  /\ \E row \in PageRows :
       last = [kind |-> "rows", args |-> <<row>>, releases |-> <<>>,
               resp |-> <<>>]

\* the catalog handler lists the releases parsed from a page
ListPage ==
  /\ last.kind = "rows"
  /\ last' = [last EXCEPT
                !.kind = "metas",
                !.releases = parseReleases(last.args),
                !.resp = _transformToMetas(parseReleases(last.args), now)]
  /\ UNCHANGED <<now, advances, cache, movies, torrents>>

NextListing == ListPage

SpecListing == InitListing /\ [][NextListing]_vars

\* the meta handler accepts the id of a listed meta
OpensInMetaHandler(meta) ==
  _validateInput(JObj([type |-> JStr(MovieType), id |-> Get(meta, "id")])) = ""

\* C34: for every release produced by the Release Lister's page parser, the
\* 4K variant entries included, the id the catalog handler emits for it in
\* metas is accepted by the meta handler's id validation.
C34_ListedIdsOpen ==
  last.kind = "metas" =>
    \A i \in 1..Len(last.resp) : OpensInMetaHandler(last.resp[i])

\* the part of C34 that holds: the ids of the releases that are not 4K
\* variants are accepted
C34_StandardPart ==
  last.kind = "metas" =>
    \A i \in 1..Len(last.resp) :
      Get(last.releases[i], "quality") = JStr(<<"1", "0", "8", "0", "p">>)
        => OpensInMetaHandler(last.resp[i])

\* a row with a 4K link listed as two metas
C34_FourKListed ==
  /\ last.kind = "metas"
  /\ last.args[1].fourK
  /\ Len(last.resp) = 2

\* ---------------------------------------------------------------------
\* ids: validation and sanitization
\* ---------------------------------------------------------------------

\* ids: "tt" and "cc_" followed by runs of a digit or a letter that end in
\* one of two characters, short and around the length sanitizeId keeps,
\* "cc_" followed by the fragments, and ids with a space, a quote or an
\* upper-case letter
RunLengths ==
  (0..MaxRun) \cup ((SanitizeMaxLen - 5)..(SanitizeMaxLen - 1))
IdInputs ==
  {<<"t", "t">> \o Repeat("1", n) \o <<d>> :
     n \in RunLengths, d \in {"1", "2"}}
  \cup {<<"c", "c", "_">> \o Repeat("a", n) \o <<d>> :
          n \in RunLengths, d \in {"a", "-"}}
  \cup {<<"c", "c", "_">> \o f : f \in Fragments}
  \cup {<<" ">> \o IdTT, IdTT \o <<"'">>, IdCC \o <<"B">>, <<"t", "t">>}

InitIds ==
  /\ now = StartClock
  /\ advances = 0
  /\ cache = NoRows
  /\ movies = <<>>
  /\ torrents = NoRows
  /\ \E id \in IdInputs :
       last = [kind |-> "id", args |-> id, valid |-> FALSE,
               resp |-> [ok |-> FALSE, v |-> <<>>]]

\* the meta handler validates the id and then sanitizes it
SanitizeId ==
  /\ last.kind = "id"
  /\ last' = [last EXCEPT !.kind = "sanitizedId",
                          !.valid = validateMovieId(JStr(last.args)),
                          !.resp = sanitizeId(JStr(last.args))]
  /\ UNCHANGED <<now, advances, cache, movies, torrents>>

NextIds == SanitizeId

SpecIds == InitIds /\ [][NextIds]_vars

\* C35: for every id accepted by validateMovieId, sanitizeId returns the id
\* unchanged, so two distinct valid ids never share a sanitized id and with
\* it a meta: cache entry.
C35_SanitizeKeepsValidIds ==
  (last.kind = "sanitizedId" /\ last.valid) =>
    /\ last.resp.ok
    /\ last.resp.v = last.args
    /\ \A other \in IdInputs :
         (validateMovieId(JStr(other)) /\ other # last.args)
           => MetaKey(sanitizeId(JStr(other)).v) # MetaKey(last.resp.v)

\* the part of C35 that holds: a valid id of at most 100 characters is
\* returned unchanged
C35_ShortIdsPart ==
  (last.kind = "sanitizedId" /\ last.valid
     /\ Len(last.args) <= SanitizeMaxLen) =>
    /\ last.resp.ok
    /\ last.resp.v = last.args

\* a valid id of more than 100 characters, cut to 100
C35_LongIdCut ==
  /\ last.kind = "sanitizedId"
  /\ last.valid
  /\ Len(last.args) > SanitizeMaxLen
  /\ Len(last.resp.v) = SanitizeMaxLen

\* ---------------------------------------------------------------------
\* lib/metadata: getMetadata and its cache entry
\* ---------------------------------------------------------------------

\* "7 days in seconds"
METADATA_CACHE_TTL == 7 * 24 * 60 * 60

\* the cache key `metadata_${imdbId}_${type}`
MetadataKey(imdbId, type) ==
  <<"m", "e", "t", "a", "d", "a", "t", "a", "_">> \o imdbId \o <<"_">> \o type

\* escapeTitle(title) for a title of ASCII letters and single spaces
escapeTitle(title) == Trim(ToLowerCase(title))

\* getMetadataCinemeta(imdbId, type): the fields title, originalTitle, year
\* and type of the answer; data is the body Cinemeta answers with, JNull
\* when the request fails. ok = FALSE: an Error is thrown
getMetadataCinemeta(data) ==
  IF ~Truthy(data) \/ ~Truthy(Get(data, "meta"))
     \/ ~Truthy(Get(Get(data, "meta"), "name"))
    THEN [ok |-> FALSE, v |-> JUndef]
  ELSE LET meta == Get(data, "meta")
       IN [ok |-> TRUE,
           v |-> JObj([title |-> JStr(escapeTitle(Get(meta, "name").v)),
                       originalTitle |-> Get(meta, "name"),
                       year |-> Get(meta, "year"),
                       type |-> Get(meta, "type")])]

\* getBasicMetadata(imdbId): the same fields of the fallback
getBasicMetadata(imdbId) ==
  JObj([title |-> JStr(<<"M", "o", "v", "i", "e", " ">> \o imdbId),
        originalTitle |-> JStr(<<"M", "o", "v", "i", "e", " ">> \o imdbId),
        year |-> JNull,
        type |-> JStr(MovieType)])

\* getMetadata(imdbId, type) on the cache table c at time t:
\* [v |-> the metadata returned, cache |-> the table afterwards]
getMetadata(imdbId, type, data, c, t) ==
  LET cacheKey == MetadataKey(imdbId, type)
      cachedMetadata == getCache(c, cacheKey, t)
      metadata == IF getMetadataCinemeta(data).ok
                    THEN getMetadataCinemeta(data).v
                  ELSE getBasicMetadata(imdbId)
  IN IF Truthy(cachedMetadata) THEN [v |-> cachedMetadata, cache |-> c]
     ELSE IF Truthy(metadata)
       THEN [v |-> metadata,
             cache |-> setCache(c, cacheKey, metadata, METADATA_CACHE_TTL, t)]
     ELSE [v |-> metadata, cache |-> c]

\* what Cinemeta answers with: nothing, a body without a name, and two movies
CinemetaAnswers ==
  {JNull,
   JObj([meta |-> JObj([year |-> JNum(2023)])]),
   JObj([meta |-> JObj([name |-> JStr(<<"A", " ", "b">>), year |-> JNum(2023),
                        type |-> JStr(MovieType)])]),
   JObj([meta |-> JObj([name |-> JStr(<<"C">>), year |-> JNull,
                        type |-> JStr(MovieType)])])}

\* a call of getMetadata from start to end; last.written is the time at
\* which the call wrote the entry, -1 when it wrote none
GetMetadata(imdbId, type, data) ==
  \E out \in {getMetadata(imdbId, type, data, cache, now)} :
    /\ cache' = out.cache
    /\ last' = [kind |-> "metadata", args |-> <<imdbId, type>>,
                key |-> MetadataKey(imdbId, type), resp |-> out.v,
                written |-> IF out.cache # cache THEN now ELSE -1]
    /\ UNCHANGED <<now, advances, movies, torrents>>

InitMetadata ==
  /\ now = StartClock
  /\ advances = 0
  /\ cache = NoRows
  /\ movies = <<>>
  /\ torrents = NoRows
  /\ last = [kind |-> "start", args |-> <<>>, key |-> <<>>, resp |-> JNull,
             written |-> -1]

NextMetadata ==
  \/ \E imdbId \in {IdTT, ImdbOfDetails} : \E data \in CinemetaAnswers :
       GetMetadata(imdbId, MovieType, data)
  \/ AdvanceClock
  \/ CacheSweep

SpecMetadata == InitMetadata /\ [][NextMetadata]_vars

\* the entry the last call wrote is still the one in the table
EntryOfLastCall ==
  /\ last.kind = "metadata"
  /\ last.written >= 0
  /\ last.key \in DOMAIN cache
  /\ cache[last.key].data = JsonRoundTrip(last.resp)

\* C36: the metadata_<imdbId>_<type> cache entry written by getMetadata
\* expires 7 days (10080 minutes) after it was written.
C36_MetadataExpiresAfterSevenDays ==
  EntryOfLastCall =>
    cache[last.key].expires_at
      = ToISOString(last.written + 7 * SecondsPerDay)

\* the part of C36 that holds: the entry expires METADATA_CACHE_TTL minutes
\* after it was written, which is 420 days
C36_TtlReadAsMinutesPart ==
  EntryOfLastCall =>
    /\ cache[last.key].expires_at
         = ToISOString(last.written + METADATA_CACHE_TTL * SecondsPerMinute)
    /\ METADATA_CACHE_TTL * SecondsPerMinute = 420 * SecondsPerDay

\* an entry served from the cache 8 days or more after it was written
C36_ServedAfterEightDays ==
  /\ last.kind = "metadata"
  /\ last.written = -1
  /\ last.key \in DOMAIN cache
  /\ cache[last.key].expires_at[1]
       <= (now + METADATA_CACHE_TTL * SecondsPerMinute) \div SecondsPerDay - 8

\* ---------------------------------------------------------------------
\* CatalogHandler: the window of a catalog query
\* ---------------------------------------------------------------------

\* values of extra.skip and extra.limit: absent, numbers and texts, below,
\* at and above the limits
WindowValues ==
  {JUndef, JNull}
  \cup {JNum(n) : n \in {-5, 0, 1, DEFAULT_LIMIT, MAX_LIMIT, MAX_LIMIT + 1}}
  \cup {JStr(s) : s \in {<<>>, <<"x">>, <<"0">>, <<"7">>, <<" ", "7", "x">>,
                         <<"-", "5">>, <<"1", "0", "0">>, <<"1", "0", "1">>}}

InitQuery ==
  /\ now = StartClock
  /\ advances = 0
  /\ cache = NoRows
  /\ movies = <<>>
  /\ torrents = NoRows
  /\ \E skip \in WindowValues : \E limit \in WindowValues :
       last = [kind |-> "extra",
               args |-> CatalogArgs(JStr(CatalogLatest),
                                    JObj([skip |-> skip, limit |-> limit])),
               resp |-> [search |-> <<>>, skip |-> 0, limit |-> 0]]

\* the catalog handler parses the query of a request
ParseQuery ==
  /\ last.kind = "extra"
  /\ last' = [last EXCEPT !.kind = "query", !.resp = _parseQuery(last.args)]
  /\ UNCHANGED <<now, advances, cache, movies, torrents>>

NextQuery == ParseQuery

SpecQuery == InitQuery /\ [][NextQuery]_vars

\* extra.limit as parseInt reads it
GivenLimit == ParseIntOf(Get(Get(last.args, "extra"), "limit"))

\* C37: for every extra.skip and extra.limit, the parsed query has skip >= 0
\* and 1 <= limit <= 100, the limit being 20 when none usable is supplied.
C37_WindowBounds ==
  last.kind = "query" =>
    /\ last.resp.skip >= 0
    /\ 1 <= last.resp.limit /\ last.resp.limit <= 100
    /\ GivenLimit.t # "num" => last.resp.limit = 20

\* the part of C37 that holds: skip >= 0, limit <= 100, limit 20 when
\* extra.limit is absent, not a number or 0, and limit >= 1 unless
\* extra.limit is negative
C37_UpperBoundPart ==
  last.kind = "query" =>
    /\ last.resp.skip >= 0
    /\ last.resp.limit <= 100
    /\ (GivenLimit.t # "num" \/ GivenLimit.v = 0) => last.resp.limit = 20
    /\ (GivenLimit.t = "num" /\ GivenLimit.v < 0) \/ last.resp.limit >= 1

\* a negative extra.limit kept as the limit of the query
C37_NegativeLimitKept ==
  /\ last.kind = "query"
  /\ GivenLimit.t = "num" /\ GivenLimit.v < 0
  /\ last.resp.limit = GivenLimit.v

\* ---------------------------------------------------------------------
\* torrent parser: the file list and the main video file of a torrent
\* ---------------------------------------------------------------------

\* the extensions by which extractTorrentInfo finds video files
ParserVideoExtensions ==
  SupportedVideoExtensions
    \cup {<<"t", "s">>, <<"m", "p", "g">>, <<"m", "p", "e", "g">>}

\* videoFiles.reduce((largest, file) =>
\*   file.length > (largest?.length || 0) ? file : largest, null)
RECURSIVE LargestFrom(_, _)
LargestFrom(videoFiles, largest) ==
  IF videoFiles = <<>> THEN largest
  ELSE LargestFrom(Tail(videoFiles),
         IF Head(videoFiles).length
              > (IF largest = JNull THEN 0 ELSE largest.length)
           THEN Head(videoFiles) ELSE largest)

\* videoFiles.indexOf(file)
IndexOf(videoFiles, file) ==
  IF \E i \in 1..Len(videoFiles) : videoFiles[i] = file
    THEN (CHOOSE i \in 1..Len(videoFiles) :
            /\ videoFiles[i] = file
            /\ \A j \in 1..(i - 1) : videoFiles[j] # file) - 1
  ELSE -1

\* TorrentParserService.extractTorrentInfo(parsed): the fields name,
\* infoHash, trackers, files (name, size, index) and mainVideoFile; parsed
\* carries the files of the torrent as [name, length]
extractTorrentInfo(parsed) ==
  LET files == parsed.files
      videoFiles ==
        SelectSeq(files, LAMBDA file :
          Extension(ToLowerCase(file.name)) \in ParserVideoExtensions)
      mainVideoFile == LargestFrom(videoFiles, JNull)
      fileList == [i \in 1..Len(files) |->
                     JObj([name |-> JStr(files[i].name),
                           size |-> JNum(files[i].length),
                           index |-> JNum(i - 1)])]
  IN JObj([name |-> JStr(parsed.name),
           infoHash |-> JStr(ToLowerCase(parsed.infoHash)),
           trackers |-> JArr(<<>>),
           files |-> JArr(fileList),
           mainVideoFile |->
             IF mainVideoFile = JNull THEN JNull
             ELSE JObj([name |-> JStr(mainVideoFile.name),
                        size |-> JNum(mainVideoFile.length),
                        index |-> JNum(IndexOf(videoFiles, mainVideoFile))])])

\* parsed torrents: up to MaxFiles files, each with one of five names and a
\* length of 0, 1 or 2
ParsedFileNames == FileNames \cup {<<"m", ".", "t", "s">>}
ParsedFiles == {[name |-> n, length |-> l] : n \in ParsedFileNames, l \in 0..2}
ParsedTorrents ==
  {[name |-> <<"T">>, infoHash |-> <<"H", "1">>, files |-> f] :
     f \in UNION {[1..n -> ParsedFiles] : n \in 0..MaxFiles}}

InitTorrentFiles ==
  /\ now = StartClock
  /\ advances = 0
  /\ cache = NoRows
  /\ movies = <<>>
  /\ torrents = NoRows
  /\ \E parsed \in ParsedTorrents :
       last = [kind |-> "parsed", args |-> parsed, resp |-> <<>>]

\* a magnet inspection and the projection of its result into streams
InspectAndProject ==
  /\ last.kind = "parsed"
  /\ \E fetched \in
        {_fetchTorrentInfo(Env({}, [releases |-> <<>>, details |-> JNull,
                                    ext |-> JNull],
                               extractTorrentInfo(last.args)),
                           Store)} :
       last' = [last EXCEPT
                  !.kind = "streams",
                  !.resp = _createStreamsFromTorrent(fetched.v, JNull, IdCC)]
  /\ UNCHANGED <<now, advances, cache, movies, torrents>>

NextTorrentFiles == InspectAndProject

SpecTorrentFiles == InitTorrentFiles /\ [][NextTorrentFiles]_vars

\* the positions, counted from 0, of the files of the torrent with a name
PositionsOf(filename) ==
  {i - 1 : i \in {j \in 1..Len(last.args.files) :
                    JStr(last.args.files[j].name) = filename}}

\* C38: in every torrent stream descriptor whose filename is a file of the
\* torrent, fileIdx is the position of that file in the torrent's full file
\* list.
C38_FileIdxIsPosition ==
  last.kind = "streams" =>
    \A i \in 1..Len(last.resp) :
      PositionsOf(Get(last.resp[i], "filename")) # {}
        => Get(last.resp[i], "fileIdx").v
             \in PositionsOf(Get(last.resp[i], "filename"))

\* the part of C38 that holds: the descriptors of a torrent with a file of
\* one of the eight extensions of the stream projector
C38_ProjectorVideoPart ==
  (last.kind = "streams"
     /\ \E j \in 1..Len(last.args.files) :
          Extension(ToLowerCase(last.args.files[j].name))
            \in SupportedVideoExtensions) =>
    \A i \in 1..Len(last.resp) :
      Get(last.resp[i], "fileIdx").v
        \in PositionsOf(Get(last.resp[i], "filename"))

\* a descriptor for the main video file of a torrent whose first file is
\* not a video
C38_MainVideoFileStream ==
  /\ last.kind = "streams"
  /\ Len(last.resp) = 1
  /\ Len(last.args.files) = 2
  /\ Get(last.resp[1], "filename") = JStr(last.args.files[2].name)
  /\ last.args.files[1].name # last.args.files[2].name
  /\ Get(last.resp[1], "fileIdx") = JNum(0)

\* ---------------------------------------------------------------------
\* results of a source that failed, and the response cache
\* ---------------------------------------------------------------------

\* Array.prototype.slice(start, end)
Slice(s, start, end) ==
  LET from == IF start < 0 THEN Max(Len(s) + start, 0) ELSE Min(start, Len(s))
      to == IF end < 0 THEN Max(Len(s) + end, 0) ELSE Min(end, Len(s))
  IN SubSeq(s, from + 1, to)

\* the page loop of performQuery as a whole: pages[n] is what the request
\* for page n comes to, [ok, releases, hasMorePages]
RECURSIVE CollectPages(_, _, _, _)
CollectPages(page, query, pages, releases) ==
  IF page > maxPages(query) THEN releases
  ELSE IF ~pages[page].ok
    THEN IF page = 1 THEN releases
         ELSE CollectPages(page + 1, query, pages, releases)
  ELSE IF ~pages[page].hasMorePages THEN releases \o pages[page].releases
  ELSE IF Len(pages[page].releases) < 1 /\ query.isSearch
    THEN releases \o pages[page].releases
  ELSE CollectPages(page + 1, query, pages, releases \o pages[page].releases)

\* CineCalidadService.performQuery(query)
performQuery(query, pages) ==
  LET isSearch == Len(Trim(query.search)) > 0
      releases == CollectPages(1, [isSearch |-> isSearch], pages, <<>>)
      startIndex == query.skip
      endIndex == IF query.limit # 0 THEN startIndex + query.limit
                  ELSE Len(releases)
  IN Slice(releases, startIndex, endIndex)

\* listing pages: a failed request, a page with a release and more pages, a
\* last page with a release
ListingPages ==
  {[ok |-> FALSE, releases |-> <<>>, hasMorePages |-> FALSE],
   [ok |-> TRUE, releases |-> <<ReleaseExact>>, hasMorePages |-> TRUE],
   [ok |-> TRUE, releases |-> <<ReleaseExact>>, hasMorePages |-> FALSE]}

\* the request for the latest listing
ListingRequests == {CatalogArgs(JStr(CatalogLatest), JUndef)}

\* a catalog request whose Release Lister reads the given pages
CatalogOverPages(args, pages) ==
  \E out \in
     {CatalogHandler_handle(
        args,
        Env({}, [releases |-> performQuery(_parseQuery(args), pages),
                 details |-> JNull, ext |-> JNull], JNull),
        Store, now)} :
    /\ cache' = out.st.cache
    /\ last' = [kind |-> "catalog", args |-> args, ok |-> out.ok,
                resp |-> out.v, calls |-> out.st.calls,
                sourceFailed |-> ~pages[1].ok]
    /\ UNCHANGED <<now, advances, movies, torrents>>

\* a movie page with magnet links only
DetailsOfMagnets(links) ==
  JObj([imdbId |-> JNull, title |-> JStr(<<"A">>), downloadLinks |-> JArr(links)])
TwoMagnetLinks ==
  <<JObj([name |-> JStr(<<"7", "2", "0", "P">>), url |-> JStr(MagnetUrl)]),
    JObj([name |-> JStr(<<"4", "K">>), url |-> JStr(MagnetUrl2)])>>

\* a stream request for a movie with magnet links; the inspections of the
\* request throw, find nothing (null) or describe a torrent
StreamOverInspections(args, outcome) ==
  \E out \in
     {StreamHandler_handle(
        args,
        Env(IF outcome = "throws" THEN {"getTorrentInfo"} ELSE {},
            [releases |-> <<ReleaseOther, ReleaseExact>>,
             details |-> DetailsOfMagnets(TwoMagnetLinks), ext |-> JNull],
            IF outcome = "info" THEN Torrent1 ELSE JNull),
        Store, now)} :
    /\ cache' = out.st.cache
    /\ movies' = out.st.movies
    /\ torrents' = out.st.torrents
    /\ last' = [kind |-> "stream", args |-> args, ok |-> out.ok,
                resp |-> out.v, calls |-> out.st.calls,
                sourceFailed |-> outcome # "info"]
    /\ UNCHANGED <<now, advances>>

InitSourceFailure ==
  /\ now = StartClock
  /\ advances = 0
  /\ cache = NoRows
  /\ movies = <<>>
  /\ torrents = NoRows
  /\ last = [kind |-> "start", args |-> JNull, ok |-> TRUE, resp |-> JNull,
             calls |-> NoCalls, sourceFailed |-> FALSE]

NextSourceFailure ==
  \/ \E args \in ListingRequests :
       \E pages \in [1..maxLatestPageLimit -> ListingPages] :
         CatalogOverPages(args, pages)
  \/ \E outcome \in InspectionOutcomes :
       StreamOverInspections(MovieArgs(JStr(IdCC)), outcome)
  \/ AdvanceClock

SpecSourceFailure == InitSourceFailure /\ [][NextSourceFailure]_vars

Called(name) == \E i \in DOMAIN last.calls : last.calls[i] = name

\* the request asked its source, the source failed (the first listing page
\* could not be fetched, or every magnet inspection failed) and the result
\* is empty
EmptyBecauseSourceFailed ==
  /\ last.sourceFailed
  /\ last.ok
  /\ \/ /\ last.kind = "catalog"
        /\ Called("performQuery")
        /\ last.resp = NoMetas
     \/ /\ last.kind = "stream"
        /\ Called("getTorrentInfo")
        /\ last.resp = NoStreams

\* C39: an empty catalog or stream result produced because a source failed
\* (the first page fetch failed, or every magnet inspection failed) is never
\* written to the catalog_ / stream_ cache.
C39_SourceFailureNotCached ==
  EmptyBecauseSourceFailed => ~Called("setCache")

\* what holds instead of C39: every result the handlers compute from their
\* sources, empty or not, is handed to the cache
C39_EveryResultCachedPart ==
  (last.ok /\ ((Called("performQuery") /\ last.kind = "catalog")
               \/ Called("getTorrentInfo")))
    => Called("setCache")

\* an empty stream result served from the cache after the inspections of an
\* earlier request failed
C39_EmptyStreamsServedFromCache ==
  /\ last.kind = "stream"
  /\ last.resp = NoStreams
  /\ Called("getCache") /\ ~Called("getMovie")

====
